---- MODULE Spec2Model ----
(***************************************************************************)
(* Public side of wnfs-go: header / link-set / skeleton blocks over a      *)
(* content-addressed block store, the Tree, File and LDFile nodes with     *)
(* their Put, the recursive Get / Mkdir / Add / Copy / Rm of public.go,    *)
(* history, and the merge engine of merge.go.                              *)
(*                                                                         *)
(* Content addresses.  A cid is the hash of a block's bytes.  The model    *)
(* keeps the table `blocks` of every block that was ever hashed; the cid   *)
(* of a block is its index in that table, so two cids are equal iff the    *)
(* blocks are equal, and cids are totally ordered.  Nil (0) is cid.Undef / *)
(* a nil *cid.Cid.  Which blocks a store holds is `stores[s]`.             *)
(***************************************************************************)
EXTENDS Integers, Sequences, FiniteSets, TLC

VARIABLES
    blocks,   \* hash table: Seq of blocks, cid = index
    stores,   \* [StoreIds -> SUBSET cid]: blocks present in each block store
    clock,    \* base.Timestamp()
    fs,       \* the in-memory root Tree of the writer handle
    roots,    \* root cids handed to a caller so far
    oplog,    \* Seq of records: the file-system operations and their outcomes
    cnt,      \* [ops, opens, merges, nodeops]: operations performed
    tnode,    \* a Tree node held in memory
    fnode,    \* a File node held in memory
    ldnode,   \* an LDFile node held in memory
    nlog,     \* Seq of records: the operations on tnode, fnode and ldnode
    writers   \* [WriterIds -> record]: the handles that write concurrently

vars ==
    <<blocks, stores, clock, fs, roots, oplog, cnt, tnode, fnode, ldnode, nlog,
      writers>>

----------------------------------------------------------------------------
\* Bounds of the model

MaxOps == 2        \* mutations (add, mkdir, rm, copy) per behaviour
MaxOpens == 1      \* times the handle is re-opened at an earlier root
MaxMerges == 1     \* merges per behaviour
MaxDepth == 2      \* longest path handed to an operation
MaxClock == 1      \* largest timestamp
MaxFail == 8       \* a failing store write comes after 0..MaxFail-1 successful ones
MaxNodeOps == 5    \* operations on the nodes held in memory
MaxSeqOps == 3     \* mutations per behaviour of SpecSeq
MaxLateOps == 3    \* mutations per behaviour of SpecLate
MaxLateOpens == 2  \* re-openings of the handle per behaviour of SpecLate
MaxPreOps == 1     \* mutations before the writers of SpecWriters load the root
MaxWriterOps == 1  \* mutations per writer of SpecWriters
MaxEmptyOps == 3   \* operations per behaviour of SpecEmpty
MaxReadDir == 3    \* the largest count asked of ReadDir

NameSeq == <<"a", "b">>          \* link names, in ascending order
Names == {NameSeq[i] : i \in 1..Len(NameSeq)}
Contents == {"p", "q"}           \* byte contents of opaque files
WriterIds == {1, 2}              \* the handles of SpecWriters
StoreIds == {1, 2}

Nil == 0
NoFail == 0 - 1                  \* write budget of an operation whose store never fails

NTNone == ""                     \* zero value of base.NodeType
NTDir == "dir"
NTFile == "file"
NTLDFile == "ldfile"
LatestVersion == "2.0.0"

OK == ""
ErrNotFound == "not found"
ErrInvalidPath == "invalid path: empty"
ErrIO == "io error"
ErrDecode == "decode error"
ErrNotTree == "expected file to be a tree"
ErrNoUserland == "header is missing userland link"
ErrNoLink == "no link"
ErrNoSkeleton == "header is missing skeleton link"
ErrNoInfo == "header block is missing info field"
ErrUnknownType == "unrecognized node type"
ErrPanic == "panic: nil pointer dereference"
ErrNoHistory == "data files don't yet support history"

RECURSIVE PathsOfLen(_)
PathsOfLen(n) ==
    IF n = 0 THEN {<<>>}
    ELSE {<<h>> \o p : h \in Names, p \in PathsOfLen(n - 1)}

Paths == UNION {PathsOfLen(n) : n \in 1..MaxDepth}

Min(x, y) == IF x < y THEN x ELSE y

----------------------------------------------------------------------------
\* Maps keyed by name (base.Links, Skeleton)

EmptyMap == [n \in {} |-> Nil]

MapSet(m, n, v) == [x \in (DOMAIN m) \cup {n} |-> IF x = n THEN v ELSE m[x]]

MapDel(m, n) == [x \in (DOMAIN m) \ {n} |-> m[x]]

\* Structured values of linked-data files: a payload n, and whether the value is
\* a map with its own "info" key (with or without a "wnfs" version string in it).
LDValue(i, n) == [info |-> i, n |-> n]

NoValue == LDValue("none", 0)

----------------------------------------------------------------------------
\* Info

NewInfo(t, now) ==
    [wnfs |-> LatestVersion, type |-> t, ctime |-> now, mtime |-> now, size |-> 0]

ZeroInfo == [wnfs |-> "", type |-> NTNone, ctime |-> 0, mtime |-> 0, size |-> 0]

\* Info.Map followed by InfoFromMap: every key is written and read back
InfoFromMap(m) ==
    [wnfs |-> m.wnfs, type |-> m.type, ctime |-> m.ctime, mtime |-> m.mtime,
     size |-> m.size]

----------------------------------------------------------------------------
\* Blocks.  A CBOR map block carries the keys a decoder looks at; a nil link
\* is Nil.  File content stored through store.PutFile is a "raw" block, the
\* skeleton file a "skel" block, and a link set a "links" block.

MapBlock(hasInfo, info, previous, merge, metadata, skeleton, userland, hasContent, content, extra) ==
    [k |-> "map", hasInfo |-> hasInfo, info |-> info, previous |-> previous,
     merge |-> merge, metadata |-> metadata, skeleton |-> skeleton,
     userland |-> userland, hasContent |-> hasContent, content |-> content,
     extra |-> extra]

RawBlock(data) == [k |-> "raw", data |-> data]

SkeletonFile(sk) == [k |-> "skel", sk |-> sk]

LinksEncodeBlock(links) == [k |-> "links", links |-> links]

\* An in-memory Header
NewHeader(info) ==
    [info |-> info, previous |-> Nil, merge |-> Nil, metadata |-> Nil,
     skeleton |-> Nil, userland |-> Nil]

HeaderEncodeBlock(h) ==
    MapBlock(TRUE, h.info, h.previous, h.merge, h.metadata, h.skeleton,
             h.userland, FALSE, NoValue, 0)

\* decodeHeaderBlock: [h, err]
DecodeHeaderBlock(blk) ==
    IF blk.k # "map" THEN [h |-> NewHeader(ZeroInfo), err |-> ErrDecode]
    ELSE IF ~blk.hasInfo THEN [h |-> NewHeader(ZeroInfo), err |-> ErrNoInfo]
    ELSE [h |-> [info |-> InfoFromMap(blk.info), previous |-> blk.previous,
                 merge |-> blk.merge, metadata |-> blk.metadata,
                 skeleton |-> blk.skeleton, userland |-> blk.userland],
          err |-> OK]

----------------------------------------------------------------------------
\* The store.  A world w is [blocks, stores, budget, now]: the hash table, the
\* stores, the number of store writes that still succeed (NoFail: all of
\* them) and the current time.

World(budget, now) ==
    [blocks |-> blocks, stores |-> stores, budget |-> budget, now |-> now]

Hash(w, b) ==
    IF \E i \in 1..Len(w.blocks) : w.blocks[i] = b
    THEN CHOOSE i \in 1..Len(w.blocks) : w.blocks[i] = b
    ELSE Len(w.blocks) + 1

Hashed(w, b) ==
    IF Hash(w, b) > Len(w.blocks) THEN [w EXCEPT !.blocks = Append(@, b)] ELSE w

Has(w, s, c) == c \in w.stores[s]

Block(w, c) == w.blocks[c]

\* a store of bounded size that evicts its oldest block
StorePutEvicting(w, s, b) ==
    IF w.budget = 0
    THEN [w |-> Hashed(w, b), cid |-> Hash(w, b), err |-> ErrIO]
    ELSE [w |-> [Hashed(w, b) EXCEPT
                    !.stores[s] = IF Cardinality(@) >= 4
                                  THEN (@ \ {CHOOSE c \in @ : \A d \in @ : c <= d})
                                           \cup {Hash(w, b)}
                                  ELSE @ \cup {Hash(w, b)},
                    !.budget = @ - 1],
          cid |-> Hash(w, b), err |-> OK]

\* Blockstore().Put and store.PutFile: [w, cid, err]
StorePut(w, s, b) ==
    IF w.budget = 0
    THEN [w |-> Hashed(w, b), cid |-> Hash(w, b), err |-> ErrIO]
    ELSE [w |-> [Hashed(w, b) EXCEPT !.stores[s] = @ \cup {Hash(w, b)},
                                     !.budget = @ - 1],
          cid |-> Hash(w, b), err |-> OK]

\* loadHeader: [h, err]
LoadHeader(w, s, c) ==
    IF ~Has(w, s, c) THEN [h |-> NewHeader(ZeroInfo), err |-> ErrNotFound]
    ELSE DecodeHeaderBlock(Block(w, c))

----------------------------------------------------------------------------
\* Results.  Every operation returns the world it leaves, the node as it is
\* in memory afterwards, its PutResult and its error.  A step that needs the
\* outcome of an earlier one takes it as a parameter.

\* PutResult.  Skeleton is the cid of the skeleton file just written, which is
\* what a SkeletonInfo records of a sub-skeleton.
PutResult(c, size, userland, skeleton, type) ==
    [cid |-> c, size |-> size, userland |-> userland, skeleton |-> skeleton,
     type |-> type]

\* a nil base.PutResult
NoRes == PutResult(Nil, 0, Nil, Nil, NTNone)

Ret(w, n, res, err) == [w |-> w, n |-> n, res |-> res, err |-> err]

ResIsFile(res) == res.type \in {NTFile, NTLDFile}

\* PutResult.ToLink
ToLink(res) == [cid |-> res.cid, isFile |-> ResIsFile(res)]

\* PutResult.ToSkeletonInfo
ToSkeletonInfo(res) ==
    [cid |-> res.cid, userland |-> res.userland, metadata |-> Nil,
     subSkeleton |-> res.skeleton, isFile |-> ResIsFile(res)]

----------------------------------------------------------------------------
\* LDFile

LDFile(isNil, store, name, c, bare, hasInfo, info, content) ==
    [isNil |-> isNil, store |-> store, name |-> name, cid |-> c, bare |-> bare,
     hasInfo |-> hasInfo, info |-> info, metadata |-> Nil, previous |-> Nil,
     prevAliased |-> FALSE, content |-> content]

NilLDFile == LDFile(TRUE, 0, "", Nil, FALSE, FALSE, ZeroInfo, NoValue)

NewLDFile(store, name, content, now) ==
    LDFile(FALSE, store, name, Nil, FALSE, TRUE, NewInfo(NTLDFile, now), content)

NewBareLDFile(store, name, content) ==
    LDFile(FALSE, store, name, Nil, TRUE, FALSE, ZeroInfo, content)

\* df.previous is a pointer: after `df.previous = &df.cid` it reads df.cid
LDPrevious(df) == IF df.prevAliased THEN df.cid ELSE df.previous

\* LDFile.encodeBlock
LDEncodeBlock(df) ==
    MapBlock(df.hasInfo, df.info, LDPrevious(df), Nil, df.metadata, Nil, Nil,
             TRUE, df.content, 0)

\* cbornode.WrapObject(df.content): the value itself is the block
BareBlock(v) ==
    MapBlock(v.info # "none",
             IF v.info = "versioned" THEN [ZeroInfo EXCEPT !.wnfs = LatestVersion]
             ELSE ZeroInfo,
             Nil, Nil, Nil, Nil, Nil, FALSE, NoValue, v.n)

\* the value a whole block decodes to (env)
ValueOfBlock(blk) ==
    LDValue(IF ~blk.hasInfo THEN "none"
            ELSE IF blk.info.wnfs = "" THEN "noversion" ELSE "versioned",
            blk.extra)

\* decodeLDFileBlock: [n, err]
DecodeLDFileBlock(df, blk) ==
    IF blk.k # "map" THEN [n |-> df, err |-> ErrDecode]
    ELSE IF blk.hasInfo
    THEN IF InfoFromMap(blk.info).wnfs = ""
         THEN [n |-> [df EXCEPT !.hasInfo = FALSE, !.info = ZeroInfo,
                                !.content = ValueOfBlock(blk)],
               err |-> OK]
         ELSE [n |-> [df EXCEPT !.hasInfo = TRUE, !.info = InfoFromMap(blk.info),
                                !.content = IF blk.hasContent THEN blk.content
                                            ELSE NoValue],
               err |-> OK]
    ELSE [n |-> [df EXCEPT !.content = ValueOfBlock(blk), !.bare = TRUE],
          err |-> OK]

\* LoadLDFile: [n, err]
LoadLDFile(w, s, name, c) ==
    IF ~Has(w, s, c) THEN [n |-> NilLDFile, err |-> ErrNotFound]
    ELSE DecodeLDFileBlock(
             LDFile(FALSE, s, name, c, FALSE, FALSE, ZeroInfo, NoValue),
             Block(w, c))

\* LDFile.Put, bare: the outcome r of the store write
LDPutBare(r, df) ==
    IF r.err # OK THEN Ret(r.w, df, NoRes, r.err)
    ELSE Ret(r.w, [df EXCEPT !.cid = r.cid],
             PutResult(r.cid, 1, r.cid, Nil, NTLDFile), OK)

\* LDFile.Put, wrapped: `df.previous = &df.cid` and `df.info = &Info{}`
LDRotate(df) ==
    [df EXCEPT !.prevAliased = @ \/ df.cid # Nil,
               !.hasInfo = TRUE,
               !.info = IF df.hasInfo THEN @ ELSE ZeroInfo]

\* LDFile.Put, wrapped: df.cid is assigned before the store write is tried
LDPutWrapped(r, df) ==
    Ret(r.w, [df EXCEPT !.cid = r.cid],
        IF r.err # OK THEN NoRes
        ELSE PutResult(r.cid, df.info.size, r.cid, Nil, df.info.type),
        r.err)

\* LDFile.Put
LDFilePut(w, df) ==
    IF df.bare THEN LDPutBare(StorePut(w, df.store, BareBlock(df.content)), df)
    ELSE LDPutWrapped(StorePut(w, df.store, LDEncodeBlock(LDRotate(df))), LDRotate(df))

\* `if x.metadata != nil { x.metadata.Put() }` of Tree.Put and File.Put
PutMetadata(w, md) ==
    IF md.isNil THEN Ret(w, md, NoRes, OK) ELSE LDFilePut(w, md)

----------------------------------------------------------------------------
\* File

\* an io.ReadCloser: whether it is non-nil, and the bytes not yet read
Reader(data) == [set |-> TRUE, data |-> data]

NilReader == [set |-> FALSE, data |-> ""]

\* an fs.File handed to Add: an opaque file of bytes, or a linked-data file
InFile(data) == [ld |-> FALSE, data |-> data, value |-> NoValue]

InLDFile(v) == [ld |-> TRUE, data |-> "", value |-> v]

File(store, name, c, h, metadata, content) ==
    [store |-> store, name |-> name, cid |-> c, h |-> h, prevAliased |-> FALSE,
     metadata |-> metadata, content |-> content]

NilFile == File(0, "", Nil, NewHeader(ZeroInfo), NilLDFile, NilReader)

\* NewFile / NewFileMetadata, for content that carries no metadata
NewFile(store, name, content, now) ==
    File(store, name, Nil, NewHeader(NewInfo(NTFile, now)), NilLDFile, content)

\* f.h.Previous is a pointer: after `f.h.Previous = &f.cid` it reads f.cid
FilePrevious(f) == IF f.prevAliased THEN f.cid ELSE f.h.previous

\* `if h.Metadata != nil { LoadLDFile(...) }` of fileFromHeader
LoadMetadata(w, s, h) ==
    IF h.metadata # Nil THEN LoadLDFile(w, s, "metadata", h.metadata)
    ELSE [n |-> NilLDFile, err |-> OK]

FileFromHeader1(md, s, h, name, c) ==
    IF md.err # OK THEN [n |-> NilFile, err |-> md.err]
    ELSE IF h.userland = Nil THEN [n |-> NilFile, err |-> ErrNoUserland]
    ELSE [n |-> File(s, name, c, h, md.n, NilReader), err |-> OK]

\* fileFromHeader: [n, err]
FileFromHeader(w, s, h, name, c) ==
    FileFromHeader1(LoadMetadata(w, s, h), s, h, name, c)

LoadFile1(lh, w, s, name, c) ==
    IF lh.err # OK THEN [n |-> NilFile, err |-> lh.err]
    ELSE FileFromHeader(w, s, lh.h, name, c)

\* LoadFile: [n, err]
LoadFile(w, s, name, c) == LoadFile1(LoadHeader(w, s, c), w, s, name, c)

\* File.SetFile, for a reader that carries no metadata
FileSetFile(f, r) == [f EXCEPT !.content = r]

\* File.SetMetadata
FileSetMetadata(f, v) ==
    [f EXCEPT !.metadata = NewBareLDFile(f.store, "metadata", v)]

\* File.Metadata: [n, err]
FileMetadata(w, f) ==
    IF ~f.metadata.isNil THEN [n |-> f.metadata, err |-> OK]
    ELSE IF f.h.metadata = Nil THEN [n |-> NilLDFile, err |-> ErrNoLink]
    ELSE LoadLDFile(w, f.store, "metadata", f.h.metadata)

\* File.Put, after the header is written (r): f.cid was assigned before the write
FilePut4(r, f) ==
    Ret(r.w, [f EXCEPT !.cid = r.cid],
        IF r.err # OK THEN NoRes
        ELSE PutResult(r.cid, f.h.info.size, f.h.userland, Nil, f.h.info.type),
        r.err)

\* File.Put: `f.h.Previous = &f.cid`, encode and write the header
FilePut3(w, f) ==
    FilePut4(StorePut(w, f.store,
                      HeaderEncodeBlock([f.h EXCEPT !.previous = FilePrevious(f)])),
             f)

\* File.Put, after the metadata is put (m)
FilePut2(m, f) ==
    IF m.err # OK THEN Ret(m.w, [f EXCEPT !.metadata = m.n], NoRes, m.err)
    ELSE FilePut3(m.w, [f EXCEPT !.metadata = m.n,
                                 !.h.metadata = IF m.n.isNil THEN @ ELSE m.res.cid,
                                 !.prevAliased = @ \/ f.cid # Nil])

\* File.Put, after the content is written (r)
FilePut1(r, f) ==
    IF r.err # OK THEN Ret(r.w, f, NoRes, r.err)
    ELSE FilePut2(PutMetadata(r.w, f.metadata), [f EXCEPT !.h.userland = r.cid])

\* File.Put.  store.PutFile reads the content reader to its end.
FilePut(w, f) ==
    FilePut1(StorePut(w, f.store, RawBlock(f.content.data)),
             [f EXCEPT !.content.data = ""])

\* File.ensureContent: [n, err]
FileEnsureContent(w, f) ==
    IF f.content.set THEN [n |-> f, err |-> OK]
    ELSE IF Has(w, f.store, f.h.userland) /\ Block(w, f.h.userland).k = "raw"
    THEN [n |-> [f EXCEPT !.content = Reader(Block(w, f.h.userland).data)], err |-> OK]
    ELSE [n |-> f, err |-> ErrNotFound]

\* File.Read to the end, through ensureContent: [data, err]
FileRead(w, f) ==
    IF f.content.set THEN [data |-> f.content.data, err |-> OK]
    ELSE IF Has(w, f.store, f.h.userland) /\ Block(w, f.h.userland).k = "raw"
    THEN [data |-> Block(w, f.h.userland).data, err |-> OK]
    ELSE [data |-> "", err |-> ErrNotFound]

----------------------------------------------------------------------------
\* Tree

Tree(store, name, c, h, skeleton, userland) ==
    [store |-> store, name |-> name, cid |-> c, h |-> h, metadata |-> NilLDFile,
     skeleton |-> skeleton, userland |-> userland]

NewEmptyTree(store, name, now) ==
    Tree(store, name, Nil, NewHeader(NewInfo(NTDir, now)), EmptyMap, EmptyMap)

NilTree == Tree(0, "", Nil, NewHeader(ZeroInfo), EmptyMap, EmptyMap)

\* LoadSkeleton: [sk, err]
LoadSkeleton(w, s, c) ==
    IF ~Has(w, s, c) THEN [sk |-> EmptyMap, err |-> ErrNotFound]
    ELSE IF Block(w, c).k # "skel" THEN [sk |-> EmptyMap, err |-> ErrDecode]
    ELSE [sk |-> Block(w, c).sk, err |-> OK]

\* base.DecodeLinksBlock: [links, err]
DecodeLinksBlock(blk) ==
    IF blk.k # "links" THEN [links |-> EmptyMap, err |-> ErrDecode]
    ELSE [links |-> blk.links, err |-> OK]

TreeFromHeader2(ul, sk, s, h, name, c) ==
    IF ul.err # OK THEN [n |-> NilTree, err |-> ul.err]
    ELSE [n |-> Tree(s, name, c, h, sk.sk, ul.links), err |-> OK]

TreeFromHeader1(sk, w, s, h, name, c) ==
    IF sk.err # OK THEN [n |-> NilTree, err |-> sk.err]
    ELSE IF h.userland = Nil THEN [n |-> NilTree, err |-> ErrNoUserland]
    ELSE IF ~Has(w, s, h.userland) THEN [n |-> NilTree, err |-> ErrNotFound]
    ELSE TreeFromHeader2(DecodeLinksBlock(Block(w, h.userland)), sk, s, h, name, c)

\* a treeFromHeader that does not look at the type tag
TreeFromHeaderUntyped(w, s, h, name, c) ==
    IF h.skeleton = Nil THEN [n |-> NilTree, err |-> ErrNoSkeleton]
    ELSE TreeFromHeader1(LoadSkeleton(w, s, h.skeleton), w, s, h, name, c)

\* treeFromHeader: [n, err]
TreeFromHeader(w, s, h, name, c) ==
    IF h.info.type # NTDir THEN [n |-> NilTree, err |-> ErrNotTree]
    ELSE IF h.skeleton = Nil THEN [n |-> NilTree, err |-> ErrNoSkeleton]
    ELSE TreeFromHeader1(LoadSkeleton(w, s, h.skeleton), w, s, h, name, c)

LoadTree1(lh, w, s, name, c) ==
    IF lh.err # OK THEN [n |-> NilTree, err |-> lh.err]
    ELSE TreeFromHeader(w, s, lh.h, name, c)

\* LoadTree: [n, err]
LoadTree(w, s, name, c) == LoadTree1(LoadHeader(w, s, c), w, s, name, c)

\* Tree.Put, after the header is written (r)
TreePut5(r, t) ==
    IF r.err # OK THEN Ret(r.w, t, NoRes, r.err)
    ELSE Ret(r.w, [t EXCEPT !.cid = r.cid],
             PutResult(r.cid, t.h.info.size, t.h.userland, t.h.skeleton, NTNone),
             OK)

\* a Put that leaves header.previous as it was loaded
TreeRotateNot(t) == t

\* Tree.Put: `if t.cid.Defined() { t.h.Previous = &id }`
TreeRotate(t) == IF t.cid # Nil THEN [t EXCEPT !.h.previous = t.cid] ELSE t

\* Tree.Put, after the skeleton file is written (r): rotate, encode, write
TreePut4(r, t) ==
    IF r.err # OK THEN Ret(r.w, t, NoRes, r.err)
    ELSE TreePut5(StorePut(r.w, t.store,
                           HeaderEncodeBlock(TreeRotate([t EXCEPT !.h.skeleton = r.cid]).h)),
                  TreeRotate([t EXCEPT !.h.skeleton = r.cid]))

TreePut3(w, t) == TreePut4(StorePut(w, t.store, SkeletonFile(t.skeleton)), t)

\* Tree.Put, after the metadata is put (m)
TreePut2(m, t) ==
    IF m.err # OK THEN Ret(m.w, [t EXCEPT !.metadata = m.n], NoRes, m.err)
    ELSE TreePut3(m.w, [t EXCEPT !.metadata = m.n,
                                 !.h.metadata = IF m.n.isNil THEN @ ELSE m.n.cid])

\* Tree.Put, after the link block is written (r)
TreePut1(r, t) ==
    IF r.err # OK THEN Ret(r.w, t, NoRes, r.err)
    ELSE TreePut2(PutMetadata(r.w, t.metadata), [t EXCEPT !.h.userland = r.cid])

\* a Put that writes the header without having written the link block
TreePutHeaderFirst(w, t) ==
    TreePut3(Hashed(w, LinksEncodeBlock(t.userland)),
             [t EXCEPT !.h.userland = Hash(w, LinksEncodeBlock(t.userland))])

\* Tree.Put
TreePut(w, t) == TreePut1(StorePut(w, t.store, LinksEncodeBlock(t.userland)), t)

\* an updateUserlandLink that forgets the skeleton
UpdateUserlandLinkOnly(t, name, res, now) ==
    [t EXCEPT !.userland = MapSet(@, name, ToLink(res)),
              !.h.info.mtime = now,
              !.h.merge = Nil]

\* Tree.updateUserlandLink
UpdateUserlandLink(t, name, res, now) ==
    [t EXCEPT !.userland = MapSet(@, name, ToLink(res)),
              !.skeleton = MapSet(@, name, ToSkeletonInfo(res)),
              !.h.info.mtime = now,
              !.h.merge = Nil]

\* a removeUserlandLink that forgets the link set
RemoveUserlandLinkKeepsLink(t, name, now) ==
    [t EXCEPT !.skeleton = MapDel(@, name),
              !.h.info.mtime = now,
              !.h.merge = Nil]

\* Tree.removeUserlandLink
RemoveUserlandLink(t, name, now) ==
    [t EXCEPT !.userland = MapDel(@, name),
              !.skeleton = MapDel(@, name),
              !.h.info.mtime = now,
              !.h.merge = Nil]

\* the tail of Add, Copy, Rm and Mkdir once the child's outcome r is known:
\* `t.updateUserlandLink(head, res); return t.Put()`
LinkAndPut(r, t, head) ==
    IF r.err # OK THEN Ret(r.w, t, NoRes, r.err)
    ELSE TreePut(r.w, UpdateUserlandLink(t, head, r.res, r.w.now))

\* Tree.getOrCreateDirectChildTree: [n, err]
GetOrCreateDirectChildTree(w, t, name) ==
    IF name \notin DOMAIN t.userland
    THEN [n |-> NewEmptyTree(t.store, name, w.now), err |-> OK]
    ELSE LoadTree(w, t.store, name, t.userland[name].cid)

UpdateChildLDFile(prev, w, content) ==
    IF prev.err # OK THEN Ret(w, prev.n, NoRes, prev.err)
    ELSE LDFilePut(w, [prev.n EXCEPT !.content = content])

\* Tree.createOrUpdateChildLDFile: the child's Put result
CreateOrUpdateChildLDFile(w, t, name, content) ==
    IF name \in DOMAIN t.userland
    THEN UpdateChildLDFile(LoadLDFile(w, t.store, name, t.userland[name].cid), w, content)
    ELSE LDFilePut(w, NewLDFile(t.store, name, content, w.now))

UpdateChildFile(prev, w, f) ==
    IF prev.err # OK THEN Ret(w, prev.n, NoRes, prev.err)
    ELSE FilePut(w, FileSetFile(prev.n, Reader(f.data)))

\* Tree.createOrUpdateChildFile: the child's Put result
CreateOrUpdateChildFile(w, t, name, f) ==
    IF f.ld THEN CreateOrUpdateChildLDFile(w, t, name, f.value)
    ELSE IF name \in DOMAIN t.userland
    THEN UpdateChildFile(LoadFile(w, t.store, name, t.userland[name].cid), w, f)
    ELSE FilePut(w, NewFile(t.store, name, Reader(f.data), w.now))

\* Path.Shift
PathHead(path) == IF path = <<>> THEN "" ELSE Head(path)

PathTail(path) == IF path = <<>> THEN <<>> ELSE Tail(path)

\* Tree.Add
RECURSIVE TreeAdd(_, _, _, _)

AddInto(c, w, tail, f) ==
    IF c.err # OK THEN Ret(w, c.n, NoRes, c.err) ELSE TreeAdd(w, c.n, tail, f)

AddChild(w, t, path, f) ==
    IF PathTail(path) = <<>> THEN CreateOrUpdateChildFile(w, t, PathHead(path), f)
    ELSE AddInto(GetOrCreateDirectChildTree(w, t, PathHead(path)), w, PathTail(path), f)

TreeAdd(w, t, path, f) ==
    IF Len(path) = 0 THEN Ret(w, t, NoRes, ErrInvalidPath)
    ELSE LinkAndPut(AddChild(w, t, path, f), t, PathHead(path))

\* Tree.Mkdir: below the first component it recurses on t itself
\* (`res, err = t.Mkdir(tail)`), so the inner call's t is the one linked and put
RECURSIVE TreeMkdir(_, _, _)

MkdirLeaf(r, t, head) ==
    IF r.err # OK THEN Ret(r.w, t, NoRes, r.err) ELSE LinkAndPut(r, t, head)

MkdirSelf(r, head) ==
    IF r.err # OK THEN Ret(r.w, r.n, NoRes, r.err) ELSE LinkAndPut(r, r.n, head)

MkdirChild(c, w, t, path) ==
    IF c.err # OK THEN Ret(w, t, NoRes, c.err)
    ELSE IF PathTail(path) = <<>> THEN MkdirLeaf(TreePut(w, c.n), t, PathHead(path))
    ELSE MkdirSelf(TreeMkdir(w, t, PathTail(path)), PathHead(path))

TreeMkdir(w, t, path) ==
    IF Len(path) < 1 THEN Ret(w, t, NoRes, ErrInvalidPath)
    ELSE MkdirChild(GetOrCreateDirectChildTree(w, t, PathHead(path)), w, t, path)

\* Tree.Rm
RECURSIVE TreeRm(_, _, _)

RmInto(child, w, t, path) ==
    IF child.err # OK THEN Ret(w, t, NoRes, child.err)
    ELSE LinkAndPut(TreeRm(w, child.n, PathTail(path)), t, PathHead(path))

\* a Tree.Rm that does not look for an empty head
TreeRmAnyHead(w, t, path) ==
    IF PathTail(path) = <<>>
    THEN TreePut(w, RemoveUserlandLink(t, PathHead(path), w.now))
    ELSE IF PathHead(path) \notin DOMAIN t.userland THEN Ret(w, t, NoRes, ErrNotFound)
    ELSE RmInto(LoadTree(w, t.store, PathHead(path), t.userland[PathHead(path)].cid),
                w, t, path)

TreeRm(w, t, path) ==
    IF PathHead(path) = "" THEN Ret(w, t, NoRes, ErrInvalidPath)
    ELSE IF PathTail(path) = <<>>
    THEN TreePut(w, RemoveUserlandLink(t, PathHead(path), w.now))
    ELSE IF PathHead(path) \notin DOMAIN t.userland THEN Ret(w, t, NoRes, ErrNotFound)
    ELSE RmInto(LoadTree(w, t.store, PathHead(path), t.userland[PathHead(path)].cid),
                w, t, path)

----------------------------------------------------------------------------
\* Copy.  The source file system is a tree of plain files and directories;
\* an operation is handed the node that srcFS.Open(srcPathStr) returns, and
\* srcFS.Open(filepath.Join(srcPathStr, ent.Name())) is that node's entry.

SrcFile(data) == [isDir |-> FALSE, data |-> data, ents |-> EmptyMap]

SrcDir(ents) == [isDir |-> TRUE, data |-> "", ents |-> ents]

\* ReadDir(-1) of a source directory: its names in ascending order
SortedNames(S) == SelectSeq(NameSeq, LAMBDA n : n \in S)

RECURSIVE TreeCopy(_, _, _, _)
RECURSIVE CopyEntries(_, _, _, _, _)

\* one round of the loop, after `tree.Copy(base.Path{ent.Name()}, ...)` (r)
CopyEntry(r, ents, src) ==
    IF r.err # OK THEN Ret(r.w, r.n, NoRes, r.err)
    ELSE CopyEntries(r.w, r.n, Tail(ents), src, r.res)

\* the loop of createOrUpdateChildDirectory over the source entries
CopyEntries(w, tree, ents, src, res) ==
    IF ents = <<>> THEN Ret(w, tree, res, OK)
    ELSE CopyEntry(TreeCopy(w, tree, <<Head(ents)>>, src.ents[Head(ents)]), ents, src)

CopyIntoChild(tr, w, src) ==
    IF tr.err # OK THEN Ret(w, tr.n, NoRes, tr.err)
    ELSE CopyEntries(w, tr.n, SortedNames(DOMAIN src.ents), src, NoRes)

\* Tree.createOrUpdateChildDirectory: res stays nil (NoRes) without entries
CreateOrUpdateChildDirectory(w, t, name, src) ==
    CopyIntoChild(GetOrCreateDirectChildTree(w, t, name), w, src)

\* Tree.createOrUpdateChild
CreateOrUpdateChild(w, t, name, src) ==
    IF src.isDir THEN CreateOrUpdateChildDirectory(w, t, name, src)
    ELSE CreateOrUpdateChildFile(w, t, name, InFile(src.data))

CopyInto(c, w, tail, src) ==
    IF c.err # OK THEN Ret(w, c.n, NoRes, c.err) ELSE TreeCopy(w, c.n, tail, src)

CopyChild(w, t, path, src) ==
    IF PathTail(path) = <<>> THEN CreateOrUpdateChild(w, t, PathHead(path), src)
    ELSE CopyInto(GetOrCreateDirectChildTree(w, t, PathHead(path)), w, PathTail(path), src)

\* updateUserlandLink calls res.CID() on the result: a nil result is a
\* nil-pointer panic
CopyLink(r, t, head) ==
    IF r.err = OK /\ r.res = NoRes THEN Ret(r.w, t, NoRes, ErrPanic)
    ELSE LinkAndPut(r, t, head)

\* Tree.Copy
TreeCopy(w, t, path, src) ==
    IF Len(path) = 0 THEN Ret(w, t, NoRes, ErrInvalidPath)
    ELSE CopyLink(CopyChild(w, t, path, src), t, PathHead(path))

----------------------------------------------------------------------------
\* Reading

Node(kind, n, err) == [kind |-> kind, n |-> n, err |-> err]

\* a loaded node as a base.Node: nil when the load failed
AsNode(kind, r) == Node(IF r.err = OK THEN kind ELSE "none", r.n, r.err)

LoadNode1(lh, w, s, name, c) ==
    IF lh.err # OK THEN Node("none", NilTree, lh.err)
    ELSE IF lh.h.info.type = NTFile
    THEN AsNode("file", FileFromHeader(w, s, lh.h, name, c))
    ELSE IF lh.h.info.type = NTLDFile
    THEN AsNode("ldfile",
                DecodeLDFileBlock(LDFile(FALSE, s, name, c, FALSE, FALSE, ZeroInfo, NoValue),
                                  Block(w, c)))
    ELSE IF lh.h.info.type = NTDir
    THEN AsNode("tree", TreeFromHeader(w, s, lh.h, name, c))
    ELSE Node("none", NilTree, ErrUnknownType)

\* loadNode
LoadNode(w, s, name, c) == LoadNode1(LoadHeader(w, s, c), w, s, name, c)

\* Tree.Get
RECURSIVE TreeGet(_, _, _)

GetInto(ch, w, tail) ==
    IF ch.err # OK THEN Node("none", NilTree, ch.err) ELSE TreeGet(w, ch.n, tail)

\* a Tree.Get that takes a missing link for the end of the path
TreeGetSelfIfAbsent(w, t, path) ==
    IF PathHead(path) = "" \/ PathHead(path) \notin DOMAIN t.userland
    THEN Node("tree", t, OK)
    ELSE IF PathTail(path) # <<>>
    THEN GetInto(LoadTree(w, t.store, PathHead(path), t.userland[PathHead(path)].cid),
                 w, PathTail(path))
    ELSE LoadNode(w, t.store, PathHead(path), t.userland[PathHead(path)].cid)

TreeGet(w, t, path) ==
    IF PathHead(path) = "" THEN Node("tree", t, OK)
    ELSE IF PathHead(path) \notin DOMAIN t.userland THEN Node("none", NilTree, ErrNotFound)
    ELSE IF PathTail(path) # <<>>
    THEN GetInto(LoadTree(w, t.store, PathHead(path), t.userland[PathHead(path)].cid),
                 w, PathTail(path))
    ELSE LoadNode(w, t.store, PathHead(path), t.userland[PathHead(path)].cid)

\* Tree.ReadDir(-1) as the set of names it returns
TreeNames(t) == DOMAIN t.userland

\* Links.SortedSlice: the names of a link set in ascending order
SortedSlice(links) == SelectSeq(NameSeq, LAMBDA n : n \in DOMAIN links)

\* base.NewFSDirEntry(link.Name, link.IsFile)
DirEntry(links, name) == [name |-> name, isFile |-> links[name].isFile]

\* the loop of Tree.ReadDir, at index i (from 0) of the sorted slice: append,
\* then `if i == n { break }`
RECURSIVE ReadDirLoop(_, _, _, _, _)
ReadDirLoop(links, sorted, i, n, entries) ==
    IF i >= Len(sorted) THEN entries
    ELSE IF i = n THEN Append(entries, DirEntry(links, sorted[i + 1]))
    ELSE ReadDirLoop(links, sorted, i + 1, n, Append(entries, DirEntry(links, sorted[i + 1])))

\* a ReadDir that takes a negative n for 0
TreeReadDirNoDefault(t, n) ==
    ReadDirLoop(t.userland, SortedSlice(t.userland), 0, IF n < 0 THEN 0 ELSE n, <<>>)

\* Tree.ReadDir(n): the sequence of entries
TreeReadDir(t, n) ==
    ReadDirLoop(t.userland, SortedSlice(t.userland), 0,
                IF n < 0 THEN Cardinality(DOMAIN t.userland) ELSE n, <<>>)

\* BareTree.ReadDir(n) of a bare tree with these links
BareTreeReadDir(links, n) ==
    ReadDirLoop(links, SortedSlice(links), 0,
                IF n < 0 THEN Cardinality(DOMAIN links) ELSE n, <<>>)

----------------------------------------------------------------------------
\* History

HistoryEntry(c, previous, size, type, mtime) ==
    [cid |-> c, previous |-> previous, size |-> size, type |-> type, mtime |-> mtime]

TreeAsHistoryEntry(t) ==
    HistoryEntry(t.cid, t.h.previous, t.h.info.size, t.h.info.type, t.h.info.mtime)

FileAsHistoryEntry(f) ==
    HistoryEntry(f.cid, FilePrevious(f), f.h.info.size, f.h.info.type, f.h.info.mtime)

LDFileAsHistoryEntry(df) ==
    HistoryEntry(df.cid, LDPrevious(df), df.info.size, df.info.type, df.info.mtime)

LoadHistoryEntry1(lh, c) ==
    [ent |-> HistoryEntry(c, lh.h.previous, lh.h.info.size, lh.h.info.type,
                          lh.h.info.mtime),
     err |-> lh.err]

\* loadHistoryEntry: [ent, err]
LoadHistoryEntry(w, s, c) == LoadHistoryEntry1(LoadHeader(w, s, c), c)

\* the loop of history: [log, err]
RECURSIVE HistoryLoop(_, _, _, _, _)

HistoryStep(e, w, s, log, max) ==
    IF e.err # OK THEN [log |-> <<>>, err |-> e.err]
    ELSE IF Len(log) + 1 = max THEN [log |-> Append(log, e.ent), err |-> OK]
    ELSE HistoryLoop(w, s, Append(log, e.ent), e.ent.previous, max)

HistoryLoop(w, s, log, prev, max) ==
    IF prev = Nil THEN [log |-> log, err |-> OK]
    ELSE HistoryStep(LoadHistoryEntry(w, s, prev), w, s, log, max)

\* history: [log, err]
History(w, s, first, max) == HistoryLoop(w, s, <<first>>, first.previous, max)

----------------------------------------------------------------------------
\* Merge (merge.go)

MTInSync == "in-sync"
MTFastForward == "fast-forward"
MTLocalAhead == "local-ahead"
MTMergeCommit == "merge-commit"

MergeResult(type, c, isFile, err) ==
    [type |-> type, cid |-> c, userland |-> Nil, isFile |-> isFile, err |-> err]

\* what a call of merge leaves behind: the store, the result, and the two nodes
\* the caller passed, as they are in memory after the call
MRet(w, mr, a, b) == [w |-> w, mr |-> mr, a |-> a, b |-> b]

NodeAsHistoryEntry(nd) ==
    IF nd.kind = "tree" THEN TreeAsHistoryEntry(nd.n)
    ELSE IF nd.kind = "file" THEN FileAsHistoryEntry(nd.n)
    ELSE LDFileAsHistoryEntry(nd.n)

\* Node.AsLink
NodeAsLink(nd) == [cid |-> nd.n.cid, isFile |-> nd.kind # "tree"]

\* loadNodeFromSkeletonInfo
LoadNodeFromSkeletonInfo(w, s, name, info) ==
    IF info.isFile THEN AsNode("file", LoadFile(w, s, name, info.cid))
    ELSE AsNode("tree", LoadTree(w, s, name, info.cid))

\* mergeResultToSkeletonInfo
MergeResultToSkeletonInfo(mr) ==
    [cid |-> mr.cid, userland |-> mr.userland, metadata |-> Nil,
     subSkeleton |-> Nil, isFile |-> mr.isFile]

\* MergeResult.ToLink
MergeResultToLink(mr) == [cid |-> mr.cid, isFile |-> mr.isFile]

\* the links of a block, as the DAG walk of mdstore.CopyBlocks follows them
BlockLinks(blk) ==
    IF blk.k = "map"
    THEN {blk.previous, blk.merge, blk.metadata, blk.skeleton, blk.userland} \ {Nil}
    ELSE IF blk.k = "links" THEN {blk.links[n].cid : n \in DOMAIN blk.links}
    ELSE {}

\* the links of the blocks in S that store s holds
LinksOf(w, s, S) == UNION {BlockLinks(Block(w, c)) : c \in {x \in S : Has(w, s, x)}}

\* the cids of the DAG under todo
RECURSIVE Reach(_, _, _, _)
Reach(w, s, todo, seen) ==
    IF todo = {} THEN seen
    ELSE Reach(w, s, LinksOf(w, s, todo) \ (seen \cup todo), seen \cup todo)

CopyDag(dag, w, from, to) ==
    IF \E x \in dag : ~Has(w, from, x) THEN [w |-> w, err |-> ErrNotFound]
    ELSE [w |-> [w EXCEPT !.stores[to] = @ \cup dag], err |-> OK]

\* mdstore.CopyBlocks: [w, err]
CopyBlocks(w, c, from, to) == CopyDag(Reach(w, from, {c}, {}), w, from, to)

\* the inner loop of merge: walk b's chain from its head looking for aHist.Cid.
\* [found, bGen, err]
RECURSIVE ScanB(_, _, _, _, _)

ScanBNext(bCur, w, bfs, aCid, bGen) ==
    IF bCur.err # OK THEN [found |-> FALSE, bGen |-> bGen, err |-> bCur.err]
    ELSE ScanB(w, bfs, aCid, NodeAsHistoryEntry(bCur), bGen + 1)

\* an inner loop that looks at b's head only
ScanBOnlyHead(w, bfs, aCid, bHist, bGen) ==
    [found |-> aCid = bHist.cid, bGen |-> bGen, err |-> OK]

ScanB(w, bfs, aCid, bHist, bGen) ==
    IF aCid = bHist.cid THEN [found |-> TRUE, bGen |-> bGen, err |-> OK]
    ELSE IF bHist.previous = Nil THEN [found |-> FALSE, bGen |-> bGen, err |-> OK]
    ELSE ScanBNext(LoadNode(w, bfs, "", bHist.previous), w, bfs, aCid, bGen)

\* the outer loop of merge: [found, aGen, bGen, err]
RECURSIVE ScanA(_, _, _, _, _, _)

ScanANext(aCur, sb, w, afs, bfs, aGen, b) ==
    IF aCur.err # OK
    THEN [found |-> FALSE, aGen |-> aGen, bGen |-> sb.bGen, err |-> aCur.err]
    ELSE ScanA(w, afs, bfs, NodeAsHistoryEntry(aCur), aGen + 1, b)

ScanARound(sb, w, afs, bfs, aHist, aGen, b) ==
    IF sb.err # OK \/ sb.found
    THEN [found |-> sb.found, aGen |-> aGen, bGen |-> sb.bGen, err |-> sb.err]
    ELSE IF aHist.previous = Nil
    THEN [found |-> FALSE, aGen |-> aGen, bGen |-> sb.bGen, err |-> OK]
    ELSE ScanANext(LoadNode(w, afs, "", aHist.previous), sb, w, afs, bfs, aGen, b)

\* an outer loop that looks for a's head only and never steps to a's previous
ScanAOnlyHead(w, afs, bfs, aHist, aGen, b) ==
    ScanARound(ScanB(w, bfs, aHist.cid, NodeAsHistoryEntry(b), 0),
               w, afs, bfs, [aHist EXCEPT !.previous = Nil], aGen, b)

ScanA(w, afs, bfs, aHist, aGen, b) ==
    ScanARound(ScanB(w, bfs, aHist.cid, NodeAsHistoryEntry(b), 0),
               w, afs, bfs, aHist, aGen, b)

\* mergeNode: the header of the new revision
MergeHeader(a, b) == [a.n.h EXCEPT !.merge = b.n.cid, !.previous = a.n.cid]

\* mergeNode, tree case, after `a.Put()` (p)
MergeNodePut(p, r, dest, a, b) ==
    [w |-> p.w,
     n |-> Node("tree", [a.n EXCEPT !.store = dest, !.cid = r.cid, !.h = MergeHeader(a, b)], OK),
     err |-> p.err,
     after |-> Node("tree", p.n, OK)]

\* mergeNode, file case, after a.ensureContent() (e)
MergeNodeFile(e, r, dest, a, b) ==
    IF e.err # OK THEN [w |-> r.w, n |-> a, err |-> e.err, after |-> a]
    ELSE [w |-> r.w,
          n |-> Node("file", [e.n EXCEPT !.store = dest, !.cid = r.cid,
                                         !.h = MergeHeader(a, b),
                                         !.prevAliased = FALSE], OK),
          err |-> OK,
          after |-> Node("file", e.n, OK)]

\* mergeNode, after h.write(destFS) (r)
MergeNodeWritten(r, w, dest, a, b) ==
    IF r.err # OK THEN [w |-> r.w, n |-> a, err |-> r.err, after |-> a]
    ELSE IF a.kind = "tree"
    THEN MergeNodePut(TreePut(r.w, [a.n EXCEPT !.h.info.mtime = w.now]), r, dest, a, b)
    ELSE MergeNodeFile(FileEnsureContent(r.w, a.n), r, dest, a, b)

\* mergeNode: a new revision shaped like a, with merge = b.Cid and
\* previous = a.Cid, written to destFS.  [w, n, err]
MergeNode(w, dest, a, b) ==
    MergeNodeWritten(StorePut(w, dest, HeaderEncodeBlock(MergeHeader(a, b))),
                     w, dest, a, b)

RECURSIVE Merge(_, _, _, _)
RECURSIVE MergeNames(_, _, _, _, _)

\* the second loop of mergeTrees: a's names that b lacks are copied to destFS
RECURSIVE CopyUnchecked(_, _, _, _, _)

CopyUncheckedNext(cp, dest, a, b, names) ==
    IF cp.err # OK THEN cp ELSE CopyUnchecked(cp.w, dest, a, b, Tail(names))

CopyUnchecked(w, dest, a, b, names) ==
    IF names = <<>> THEN [w |-> w, err |-> OK]
    ELSE IF Head(names) \in DOMAIN b.skeleton
    THEN CopyUnchecked(w, dest, a, b, Tail(names))
    ELSE CopyUncheckedNext(CopyBlocks(w, a.skeleton[Head(names)].cid, a.store, dest),
                           dest, a, b, names)

\* mergeTrees, the end: merge link, mtime, destFS, Put
MergeTreesPut(p) == [w |-> p.w, n |-> Node("tree", p.n, OK), err |-> p.err]

MergeTreesCopied(cp, now, dest, a, b) ==
    IF cp.err # OK THEN [w |-> cp.w, n |-> Node("tree", a, OK), err |-> cp.err]
    ELSE MergeTreesPut(TreePut(cp.w, [a EXCEPT !.h.merge = b.cid,
                                               !.h.info.mtime = now,
                                               !.store = dest]))

MergeTreesNamed(m, now, dest, b) ==
    IF m.err # OK THEN [w |-> m.w, n |-> Node("tree", m.n, OK), err |-> m.err]
    ELSE MergeTreesCopied(
             CopyUnchecked(m.w, dest, m.n, b, SortedNames(DOMAIN m.n.skeleton)),
             now, dest, m.n, b)

\* mergeTrees: [w, n, err], n the merged tree as a node
MergeTrees(w, dest, a, b) ==
    MergeTreesNamed(MergeNames(w, dest, a, b, SortedNames(DOMAIN b.skeleton)),
                    w.now, dest, b)

\* a name only b has: load it, copy its blocks, link it
MergeAddCopied(cp, n, dest, a, b, names) ==
    IF cp.err # OK THEN [w |-> cp.w, n |-> a, err |-> cp.err]
    ELSE MergeNames(cp.w, dest,
                    [a EXCEPT !.skeleton = MapSet(@, Head(names), b.skeleton[Head(names)]),
                              !.userland = MapSet(@, Head(names), NodeAsLink(n))],
                    b, Tail(names))

MergeAdd(n, w, dest, a, b, names) ==
    IF n.err # OK THEN [w |-> w, n |-> a, err |-> n.err]
    ELSE MergeAddCopied(CopyBlocks(w, n.n.cid, b.store, dest), n, dest, a, b, names)

\* a mergeTrees that keeps its own entry for a name both sides have
MergeBothKeepsLocal(res, dest, a, b, names) ==
    IF res.mr.err # OK THEN [w |-> res.w, n |-> a, err |-> res.mr.err]
    ELSE MergeNames(res.w, dest, a, b, Tail(names))

\* a name both have, with different cids: merge the two nodes
MergeBothMerged(res, dest, a, b, names) ==
    IF res.mr.err # OK THEN [w |-> res.w, n |-> a, err |-> res.mr.err]
    ELSE MergeNames(res.w, dest,
                    [a EXCEPT !.skeleton = MapSet(@, Head(names), MergeResultToSkeletonInfo(res.mr)),
                              !.userland = MapSet(@, Head(names), MergeResultToLink(res.mr))],
                    b, Tail(names))

MergeBoth(lcl, rem, w, dest, a, b, names) ==
    IF lcl.err # OK THEN [w |-> w, n |-> a, err |-> lcl.err]
    ELSE IF rem.err # OK THEN [w |-> w, n |-> a, err |-> rem.err]
    ELSE MergeBothMerged(Merge(w, dest, lcl, rem), dest, a, b, names)

\* the first loop of mergeTrees, over the names of b's skeleton: [w, n, err]
MergeNames(w, dest, a, b, names) ==
    IF names = <<>> THEN [w |-> w, n |-> a, err |-> OK]
    ELSE IF Head(names) \notin DOMAIN a.skeleton
    THEN MergeAdd(LoadNodeFromSkeletonInfo(w, b.store, Head(names), b.skeleton[Head(names)]),
                  w, dest, a, b, names)
    ELSE IF a.skeleton[Head(names)].cid = b.skeleton[Head(names)].cid
    THEN MergeNames(w, dest, a, b, Tail(names))
    ELSE MergeBoth(LoadNodeFromSkeletonInfo(w, a.store, Head(names), a.skeleton[Head(names)]),
                   LoadNodeFromSkeletonInfo(w, b.store, Head(names), b.skeleton[Head(names)]),
                   w, dest, a, b, names)

\* mergeTrees works on the preferred tree itself and returns it
MergedInPlace(m) == [w |-> m.w, n |-> m.n, err |-> m.err, after |-> m.n]

\* mergeNodes: the preferred node first.  [w, n, err, after], after the
\* preferred node as the call leaves it in memory
MergePair(w, dest, x, y) ==
    IF x.kind = "tree" /\ y.kind = "tree" THEN MergedInPlace(MergeTrees(w, dest, x.n, y.n))
    ELSE MergeNode(w, dest, x, y)

\* mergeNodes: [w, n, err, a, b], a and b the caller's two nodes after the call
Preferred(m, swapped, a, b) ==
    [w |-> m.w, n |-> m.n, err |-> m.err,
     a |-> IF swapped THEN a ELSE m.after,
     b |-> IF swapped THEN m.after ELSE b]

\* a mergeNodes that always prefers its first argument
MergeNodesNoSwap(w, dest, a, b, aGen, bGen) ==
    Preferred(MergePair(w, dest, a, b), FALSE, a, b)

\* a mergeNodes that on equal generation counts prefers the larger cid
MergeNodesLargerCid(w, dest, a, b, aGen, bGen) ==
    IF aGen < bGen \/ (aGen = bGen /\ a.n.cid < b.n.cid)
    THEN Preferred(MergePair(w, dest, b, a), TRUE, a, b)
    ELSE Preferred(MergePair(w, dest, a, b), FALSE, a, b)

MergeNodes(w, dest, a, b, aGen, bGen) ==
    IF aGen < bGen \/ (aGen = bGen /\ b.n.cid < a.n.cid)
    THEN Preferred(MergePair(w, dest, b, a), TRUE, a, b)
    ELSE Preferred(MergePair(w, dest, a, b), FALSE, a, b)

MergeCommit(m, a) ==
    IF m.err # OK THEN MRet(m.w, MergeResult("", Nil, FALSE, m.err), m.a, m.b)
    ELSE MRet(m.w, MergeResult(MTMergeCommit, m.n.n.cid, a.kind # "tree", OK), m.a, m.b)

\* merge, once the two loops have run (sc)
MergeScanned(sc, w, dest, a, b) ==
    IF sc.err # OK THEN MRet(w, MergeResult("", Nil, FALSE, sc.err), a, b)
    ELSE IF sc.found /\ sc.aGen = 0 /\ sc.bGen > 0
    THEN MRet(w, MergeResult(MTFastForward, b.n.cid, b.kind # "tree", OK), a, b)
    ELSE IF sc.found /\ sc.aGen > 0 /\ sc.bGen = 0
    THEN MRet(w, MergeResult(MTLocalAhead, a.n.cid, a.kind # "tree", OK), a, b)
    ELSE MergeCommit(MergeNodes(w, dest, a, b, sc.aGen, sc.bGen), a)

\* a merge that goes to the two loops without comparing the heads first
MergeNoEqualityCheck(w, dest, a, b) ==
    MergeScanned(ScanA(w, a.n.store, b.n.store, NodeAsHistoryEntry(a), 0, b),
                 w, dest, a, b)

\* merge: [w, mr, a, b]
Merge(w, dest, a, b) ==
    IF a.n.cid = b.n.cid
    THEN MRet(w, MergeResult(MTInSync, a.n.cid, a.kind # "tree", OK), a, b)
    ELSE MergeScanned(ScanA(w, a.n.store, b.n.store, NodeAsHistoryEntry(a), 0, b),
                      w, dest, a, b)

----------------------------------------------------------------------------
\* The file system: a writer handle over the store

\* a writer handle: its Tree t, the revision base of the store it loaded from,
\* the operation it is in (busy) with the store it read from (view) and the
\* number k of store writes done, and the operations it has returned from
NoWriter ==
    [loaded |-> FALSE, t |-> NilTree, t0 |-> NilTree, base |-> {}, busy |-> FALSE,
     op |-> <<>>, view |-> {}, k |-> 0, log |-> <<>>]

InitWorld ==
    [blocks |-> <<>>, stores |-> [s \in StoreIds |-> {}], budget |-> NoFail, now |-> 0]

\* NewEmptyTree followed by Put: the persisted empty root the handle opens
Root0 == TreePut(InitWorld, NewEmptyTree(1, "", 0))

Init ==
    /\ blocks = Root0.w.blocks
    /\ stores = Root0.w.stores
    /\ clock = 0
    /\ fs = Root0.n
    /\ roots = {Root0.n.cid}
    /\ oplog = <<>>
    /\ cnt = [ops |-> 0, opens |-> 0, merges |-> 0, nodeops |-> 0]
    /\ tnode = NilTree
    /\ fnode = NilFile
    /\ ldnode = NilLDFile
    /\ nlog = <<>>
    /\ writers = [i \in WriterIds |-> NoWriter]

\* what the log keeps of a copy: its source
CopyArg(src) == [ld |-> FALSE, data |-> "", value |-> NoValue, src |-> src]

\* inputs
InFiles == {InFile(d) : d \in Contents} \cup {InLDFile(LDValue("none", 1))}

Sources ==
    { SrcFile("p"),
      SrcDir(EmptyMap),
      SrcDir("a" :> SrcFile("q")),
      SrcDir(("a" :> SrcFile("p")) @@ ("b" :> SrcDir("a" :> SrcFile("q")))) }

NoFaults == {NoFail}

Faults == {NoFail} \cup 0..(MaxFail - 1)

Times(ticking) == IF ticking THEN clock..Min(clock + 1, MaxClock) ELSE {clock}

OpRec(op, path, arg, err, res, a, b, type) ==
    [op |-> op, path |-> path, arg |-> arg, err |-> err,
     pre |-> fs.cid, res |-> res, a |-> a, b |-> b, type |-> type]

\* the outcome r of a mutation becomes the state
Apply(r, op, path, arg, max) ==
    /\ cnt.ops < max
    /\ blocks' = r.w.blocks
    /\ stores' = r.w.stores
    /\ clock' = r.w.now
    /\ fs' = r.n
    /\ roots' = IF r.err = OK THEN roots \cup {r.res.cid} ELSE roots
    /\ oplog' = Append(oplog, OpRec(op, path, arg, r.err, r.res.cid, Nil, Nil, ""))
    /\ cnt' = [cnt EXCEPT !.ops = @ + 1]
    /\ UNCHANGED <<tnode, fnode, ldnode, nlog, writers>>

Add(budgets, ticking, max) ==
    \E path \in Paths, f \in InFiles, now \in Times(ticking), b \in budgets :
        Apply(TreeAdd(World(b, now), fs, path, f), "add", path, f, max)

Mkdir(budgets, ticking, max) ==
    \E path \in Paths, now \in Times(ticking), b \in budgets :
        Apply(TreeMkdir(World(b, now), fs, path), "mkdir", path, InFile(""), max)

Rm(budgets, ticking, max) ==
    \E path \in Paths, now \in Times(ticking), b \in budgets :
        Apply(TreeRm(World(b, now), fs, path), "rm", path, InFile(""), max)

Copy(budgets, ticking, max) ==
    \E path \in Paths, src \in Sources, now \in Times(ticking), b \in budgets :
        Apply(TreeCopy(World(b, now), fs, path, src), "copy", path, CopyArg(src), max)

Opened(t, c, max) ==
    /\ cnt.opens < max
    /\ c # fs.cid
    /\ t.err = OK
    /\ fs' = t.n
    /\ oplog' = Append(oplog, OpRec("open", <<>>, InFile(""), OK, c, Nil, Nil, ""))
    /\ cnt' = [cnt EXCEPT !.opens = @ + 1]
    /\ UNCHANGED <<blocks, stores, clock, roots, tnode, fnode, ldnode, nlog, writers>>

\* the handle is opened again at a root handed out earlier (LoadTree)
OpenUpTo(max) ==
    \E c \in roots : Opened(LoadTree(World(NoFail, clock), 1, "", c), c, max)

Open == OpenUpTo(MaxOpens)

Started(r) ==
    /\ cnt.opens < MaxOpens
    /\ blocks' = r.w.blocks
    /\ stores' = r.w.stores
    /\ clock' = r.w.now
    /\ fs' = r.n
    /\ roots' = roots \cup {r.n.cid}
    /\ oplog' = Append(oplog, OpRec("new", <<>>, InFile(""), r.err, r.n.cid, Nil, Nil, ""))
    /\ cnt' = [cnt EXCEPT !.opens = @ + 1]
    /\ UNCHANGED <<tnode, fnode, ldnode, nlog, writers>>

\* the handle starts over, later, on a new empty root that shares no history
\* with the roots so far (NewEmptyTree and Put)
Fresh ==
    /\ clock < MaxClock
    /\ Started(TreePut(World(NoFail, clock + 1), NewEmptyTree(1, "", clock + 1)))

Moved(t, w, max) ==
    /\ cnt.opens < max
    /\ t.err = OK
    /\ blocks' = w.blocks
    /\ stores' = w.stores
    /\ fs' = t.n
    /\ oplog' = Append(oplog, OpRec("replicate", <<>>, InFile(""), OK, t.n.cid, Nil, Nil, ""))
    /\ cnt' = [cnt EXCEPT !.opens = @ + 1]
    /\ UNCHANGED <<clock, roots, tnode, fnode, ldnode, nlog, writers>>

Replicated(cp, max) == cp.err = OK /\ Moved(LoadTree(cp.w, 2, "", fs.cid), cp.w, max)

\* the blocks under the handle's root are copied to the second store
\* (mdstore.CopyBlocks) and the handle is opened there at the same root
ReplicateUpTo(max) ==
    /\ fs.store = 1
    /\ Replicated(CopyBlocks(World(NoFail, clock), fs.cid, 1, 2), max)

Replicate == ReplicateUpTo(MaxOpens)

\* what a merge did besides returning: the cids it added to each store, the
\* number of blocks it hashed, and the caller's two nodes before and after
MergeEffects(r, a, b) ==
    [wrote |-> [s \in StoreIds |-> r.w.stores[s] \ stores[s]],
     hashed |-> Len(r.w.blocks) - Len(blocks),
     before |-> <<a.n, b.n>>,
     after |-> <<r.a.n, r.b.n>>]

Merged(r, a, b) ==
    /\ blocks' = r.w.blocks
    /\ stores' = r.w.stores
    /\ roots' = IF r.mr.err = OK THEN roots \cup {r.mr.cid} ELSE roots
    /\ oplog' = Append(oplog, OpRec("merge", <<>>, InFile(""), r.mr.err, r.mr.cid,
                                    a.n.cid, b.n.cid, r.mr.type)
                               @@ MergeEffects(r, a, b))
    /\ cnt' = [cnt EXCEPT !.merges = @ + 1]
    /\ UNCHANGED <<clock, fs, tnode, fnode, ldnode, nlog, writers>>

MergeLoaded(a, b, max) ==
    /\ cnt.merges < max
    /\ a.err = OK /\ b.err = OK
    /\ Merged(Merge(World(NoFail, clock), a.n.store, AsNode("tree", a), AsNode("tree", b)),
              AsNode("tree", a), AsNode("tree", b))

\* Merge(a, b) of two roots, each loaded afresh from its cid out of one of the
\* stores in S; the destination is a's store
MergeRoots(S, max) ==
    \E ca \in roots, cb \in roots, sa \in S, sb \in S :
        MergeLoaded(LoadTree(World(NoFail, clock), sa, "", ca),
                    LoadTree(World(NoFail, clock), sb, "", cb), max)

\* Spec: mutations on one handle, the clock advancing, a store that never fails
Next ==
    \/ Add(NoFaults, TRUE, MaxOps)
    \/ Mkdir(NoFaults, TRUE, MaxOps)
    \/ Rm(NoFaults, TRUE, MaxOps)
    \/ Copy(NoFaults, TRUE, MaxOps)

Spec == Init /\ [][Next]_vars

\* SpecFail: mutations over a store whose writes may fail
NextFail ==
    \/ Add(Faults, FALSE, MaxOps)
    \/ Mkdir(Faults, FALSE, MaxOps)
    \/ Rm(Faults, FALSE, MaxOps)
    \/ Copy(Faults, FALSE, MaxOps)

SpecFail == Init /\ [][NextFail]_vars

\* SpecMerge: mutations, re-opening at earlier roots, new roots, and merges
NextMerge ==
    \/ Add(NoFaults, FALSE, MaxOps)
    \/ Mkdir(NoFaults, FALSE, MaxOps)
    \/ Rm(NoFaults, FALSE, MaxOps)
    \/ Copy(NoFaults, FALSE, MaxOps)
    \/ Open
    \/ Fresh
    \/ MergeRoots({1}, MaxMerges)

SpecMerge == Init /\ [][NextMerge]_vars

\* SpecStores: two stores; the handle moves to a replica on the second store,
\* and roots of either store are merged
NextStores ==
    \/ Add(NoFaults, FALSE, MaxOps)
    \/ Mkdir(NoFaults, FALSE, MaxOps)
    \/ Replicate
    \/ MergeRoots(StoreIds, MaxMerges)

SpecStores == Init /\ [][NextStores]_vars

\* add of an opaque file directly under the root
AddTop(max) ==
    \E name \in Names, d \in Contents :
        Apply(TreeAdd(World(NoFail, clock), fs, <<name>>, InFile(d)),
              "add", <<name>>, InFile(d), max)

\* SpecLate: files are added under the root, roots are merged, and the handle
\* is opened at the merge commit and goes on adding
NextLate ==
    \/ AddTop(MaxLateOps)
    \/ OpenUpTo(MaxLateOpens)
    \/ MergeRoots({1}, MaxMerges)

SpecLate == Init /\ [][NextLate]_vars

\* Concurrent writers.  Each store call is one step; the calls of two writers
\* interleave freely.  An operation reads (LoadTree, LoadFile) before its
\* first write, so its reads see the store as it is when the operation begins.

\* the mutations a writer is given
WOps ==
    {[op |-> "add", path |-> path, arg |-> InFile(d)] :
        path \in PathsOfLen(1), d \in Contents}
        \cup {[op |-> "rm", path |-> path, arg |-> InFile("")] : path \in PathsOfLen(1)}

\* the call of operation o on tree t
Do(w, t, o) ==
    IF o.op = "add" THEN TreeAdd(w, t, o.path, o.arg) ELSE TreeRm(w, t, o.path)

\* the world of a writer that has read from the store when it held the blocks
\* view, up to and including its n-th store write
ViewWorld(view, n) ==
    [blocks |-> blocks, stores |-> [s \in StoreIds |-> IF s = 1 THEN view ELSE {}],
     budget |-> n, now |-> clock]

\* every writer loads the root of the handle
WLoaded(t) ==
    /\ \A i \in WriterIds : ~writers[i].loaded
    /\ t.err = OK
    /\ writers' = [i \in WriterIds |->
                      [NoWriter EXCEPT !.loaded = TRUE, !.t = t.n, !.t0 = t.n,
                                       !.base = stores[1]]]
    /\ UNCHANGED <<blocks, stores, clock, fs, roots, oplog, cnt, tnode, fnode,
                   ldnode, nlog>>

WLoad == WLoaded(LoadTree(World(NoFail, clock), 1, "", fs.cid))

\* writer i is called with operation o
WBegin(i) ==
    \E o \in WOps :
        /\ writers[i].loaded /\ ~writers[i].busy
        /\ Len(writers[i].log) < MaxWriterOps
        /\ writers' = [writers EXCEPT ![i].busy = TRUE, ![i].op = o,
                                      ![i].view = stores[1], ![i].k = 0]
        /\ UNCHANGED <<blocks, stores, clock, fs, roots, oplog, cnt, tnode, fnode,
                       ldnode, nlog>>

\* a store whose write puts back the writer's own copy of the store, losing
\* what others wrote since the writer read it
WWrittenLosing(i, r) ==
    /\ blocks' = r.w.blocks
    /\ stores' = [stores EXCEPT ![1] = r.w.stores[1]]
    /\ writers' =
          IF r.err = ErrIO THEN [writers EXCEPT ![i].k = @ + 1]
          ELSE [writers EXCEPT
                   ![i].busy = FALSE, ![i].t = r.n, ![i].view = {}, ![i].k = 0,
                   ![i].op = <<>>,
                   ![i].log = Append(@, writers[i].op
                                            @@ [err |-> r.err,
                                                during |-> stores[1] \ r.w.stores[1]])]
    /\ UNCHANGED <<clock, fs, roots, oplog, cnt, tnode, fnode, ldnode, nlog>>

\* the next store write of writer i, r being its operation run up to the write
\* after that one; the operation returns when no write is left
WWritten(i, r) ==
    /\ blocks' = r.w.blocks
    /\ stores' = [stores EXCEPT ![1] = @ \cup r.w.stores[1]]
    /\ writers' =
          IF r.err = ErrIO THEN [writers EXCEPT ![i].k = @ + 1]
          ELSE [writers EXCEPT
                   ![i].busy = FALSE, ![i].t = r.n, ![i].view = {}, ![i].k = 0,
                   ![i].op = <<>>,
                   ![i].log = Append(@, writers[i].op
                                            @@ [err |-> r.err,
                                                during |-> stores[1] \ r.w.stores[1]])]
    /\ UNCHANGED <<clock, fs, roots, oplog, cnt, tnode, fnode, ldnode, nlog>>

WWrite(i) ==
    /\ writers[i].busy
    /\ WWritten(i, Do(ViewWorld(writers[i].view, writers[i].k + 1),
                      writers[i].t, writers[i].op))

\* SpecWriters: after at most MaxPreOps adds, two writers load the root and
\* mutate it, one store call at a time
NextWriters ==
    \/ (\A i \in WriterIds : ~writers[i].loaded) /\ AddTop(MaxPreOps)
    \/ WLoad
    \/ \E i \in WriterIds : WBegin(i)
    \/ \E i \in WriterIds : WWrite(i)

SpecWriters == Init /\ [][NextWriters]_vars

Mutations == {"add", "mkdir", "rm", "copy"}

\* add, mkdir, rm and copy called with the empty path
OnEmptyPath(op, f, src) ==
    IF op = "add" THEN TreeAdd(World(NoFail, clock), fs, <<>>, f)
    ELSE IF op = "mkdir" THEN TreeMkdir(World(NoFail, clock), fs, <<>>)
    ELSE IF op = "rm" THEN TreeRm(World(NoFail, clock), fs, <<>>)
    ELSE TreeCopy(World(NoFail, clock), fs, <<>>, src)

EmptyPath(max) ==
    \E op \in Mutations, f \in InFiles, src \in Sources :
        Apply(OnEmptyPath(op, f, src), op, <<>>, f, max)

\* SpecEmpty: adds and mkdirs, and calls with the empty path
NextEmpty ==
    \/ Add(NoFaults, FALSE, MaxEmptyOps)
    \/ Mkdir(NoFaults, FALSE, MaxEmptyOps)
    \/ EmptyPath(MaxEmptyOps)

SpecEmpty == Init /\ [][NextEmpty]_vars

\* SpecCross: files and directories under the root, a replica of one root on
\* the second store, and merges of roots of either store
NextCross ==
    \/ AddTop(MaxOps)
    \/ Mkdir(NoFaults, FALSE, MaxOps)
    \/ OpenUpTo(MaxLateOpens)
    \/ ReplicateUpTo(MaxLateOpens)
    \/ MergeRoots(StoreIds, MaxMerges)

SpecCross == Init /\ [][NextCross]_vars

\* SpecSeq: longer runs of add, mkdir and rm
NextSeq ==
    \/ Add(NoFaults, FALSE, MaxSeqOps)
    \/ Mkdir(NoFaults, FALSE, MaxSeqOps)
    \/ Rm(NoFaults, FALSE, MaxSeqOps)

SpecSeq == Init /\ [][NextSeq]_vars

----------------------------------------------------------------------------
\* Nodes held in memory: a Tree, a File and an LDFile that are created, put,
\* changed and loaded again, one call at a time

NRec(node, op, pre, c, err) ==
    [node |-> node, op |-> op, pre |-> pre, cid |-> c, err |-> err]

\* a call that touches no store
Pure(n) == Ret(World(NoFail, clock), n, NoRes, OK)

NodeStep(r, node, op, pre) ==
    /\ cnt.nodeops < MaxNodeOps
    /\ blocks' = r.w.blocks
    /\ stores' = r.w.stores
    /\ nlog' = Append(nlog, NRec(node, op, pre, r.n.cid, r.err))
    /\ cnt' = [cnt EXCEPT !.nodeops = @ + 1]
    /\ UNCHANGED <<clock, fs, roots, oplog, writers>>

TStep(r, op) ==
    /\ NodeStep(r, "tree", op, tnode.cid)
    /\ tnode' = r.n
    /\ UNCHANGED <<fnode, ldnode>>

FStep(r, op) ==
    /\ NodeStep(r, "file", op, fnode.cid)
    /\ fnode' = r.n
    /\ UNCHANGED <<tnode, ldnode>>

LStep(r, op) ==
    /\ NodeStep(r, "ldfile", op, ldnode.cid)
    /\ ldnode' = r.n
    /\ UNCHANGED <<tnode, fnode>>

Loaded(l) == Ret(World(NoFail, clock), l.n, NoRes, l.err)

TNew == tnode = NilTree /\ TStep(Pure(NewEmptyTree(1, "", clock)), "new")

TAdd ==
    \E name \in Names, d \in Contents :
        /\ tnode # NilTree
        /\ TStep(TreeAdd(World(NoFail, clock), tnode, <<name>>, InFile(d)), "add")

\* Put with a store that fails after b writes, for some b of budgets
TPutIn(budgets) ==
    \E b \in budgets :
        tnode # NilTree /\ TStep(TreePut(World(b, clock), tnode), "put")

TPut == TPutIn(NoFaults)

TLoad ==
    /\ tnode.cid # Nil
    /\ TStep(Loaded(LoadTree(World(NoFail, clock), 1, tnode.name, tnode.cid)), "load")

\* map values: without an "info" key, with an "info" map that has no "wnfs"
\* key, and with an "info" map that has one
LDValues == {LDValue(i, 1) : i \in {"none", "noversion", "versioned"}}

FNew ==
    \E d \in Contents :
        fnode = NilFile /\ FStep(Pure(NewFile(1, "f", Reader(d), clock)), "new")

FSetFile ==
    \E d \in Contents :
        fnode # NilFile /\ FStep(Pure(FileSetFile(fnode, Reader(d))), "setfile")

FSetMetadata ==
    \E v \in LDValues :
        fnode # NilFile /\ FStep(Pure(FileSetMetadata(fnode, v)), "setmetadata")

FPutIn(budgets) ==
    \E b \in budgets :
        /\ fnode # NilFile
        /\ fnode.content.set
        /\ FStep(FilePut(World(b, clock), fnode), "put")

FPut == FPutIn(NoFaults)

\* File.Put on a file whose content is nil: base.NewMemfileReader and
\* store.PutFile are handed a nil reader, and the read of it panics, or
\* PutFile returns an error, or no bytes are stored as the content
NilContentPuts == {"panic", "error", "empty"}

FilePutNilContent(w, f, outcome) ==
    IF outcome = "panic" THEN Ret(w, f, NoRes, ErrPanic)
    ELSE IF outcome = "error" THEN Ret(w, f, NoRes, ErrIO)
    ELSE FilePut(w, FileSetFile(f, Reader("")))

FPutUnread ==
    \E outcome \in NilContentPuts :
        /\ fnode # NilFile
        /\ ~fnode.content.set
        /\ FStep(FilePutNilContent(World(NoFail, clock), fnode, outcome), "put")

FLoad ==
    /\ fnode.cid # Nil
    /\ FStep(Loaded(LoadFile(World(NoFail, clock), 1, fnode.name, fnode.cid)), "load")

LNew ==
    \E bare \in BOOLEAN, v \in LDValues :
        /\ ldnode.isNil
        /\ LStep(Pure(IF bare THEN NewBareLDFile(1, "d", v)
                      ELSE NewLDFile(1, "d", v, clock)), "new")

LPutIn(budgets) ==
    \E b \in budgets :
        ~ldnode.isNil /\ LStep(LDFilePut(World(b, clock), ldnode), "put")

LPut == LPutIn(NoFaults)

LLoad ==
    /\ ldnode.cid # Nil
    /\ LStep(Loaded(LoadLDFile(World(NoFail, clock), 1, ldnode.name, ldnode.cid)), "load")

NextNode ==
    \/ TNew \/ TAdd \/ TPut \/ TLoad
    \/ FNew \/ FSetFile \/ FSetMetadata \/ FPut \/ FLoad
    \/ LNew \/ LPut \/ LLoad

SpecNode == Init /\ [][NextNode]_vars

\* SpecReload: a file that is put, loaded and put again
NextReload ==
    FNew \/ FSetFile \/ FSetMetadata \/ FPut \/ FLoad \/ FPutUnread

SpecReload == Init /\ [][NextReload]_vars

\* SpecNodeFail: the same nodes on a store whose writes can fail
NextNodeFail ==
    \/ TNew \/ TAdd \/ TPutIn(Faults)
    \/ FNew \/ FSetFile \/ FPutIn(Faults)
    \/ LNew \/ LPutIn(Faults)

SpecNodeFail == Init /\ [][NextNodeFail]_vars

----------------------------------------------------------------------------
\* Reading a state back, as a caller holding the handle or a root cid does

\* the store as it is now
Now == World(NoFail, clock)

Last(log) == log[Len(log)]

\* the tree loaded afresh from root cid c
Reloaded(c) == LoadTree(Now, 1, "", c)

\* cat: the bytes of the file that get(path) returns
CatNode(nd) ==
    IF nd.err # OK THEN [data |-> "", err |-> nd.err]
    ELSE IF nd.kind = "file" THEN FileRead(Now, nd.n)
    ELSE [data |-> "", err |-> "not an opaque file"]

Cat(t, path) == CatNode(TreeGet(Now, t, path))

\* ls: the names get(path) lists, and whether get(path) is a directory at all
LsNode(nd) ==
    IF nd.err = OK /\ nd.kind = "tree" THEN [names |-> TreeNames(nd.n), err |-> OK]
    ELSE [names |-> {}, err |-> IF nd.err # OK THEN nd.err ELSE ErrNotTree]

Ls(t, path) == LsNode(TreeGet(Now, t, path))

\* the names under path in the root an operation started from; none when the
\* path did not exist there
LsBefore(rec, path) ==
    IF Reloaded(rec.pre).err = OK THEN Ls(Reloaded(rec.pre).n, path).names ELSE {}

----------------------------------------------------------------------------
\* get(rec.path) reads rec's bytes, on the handle and on the reloaded root
C1_Rec(rec) ==
    /\ Cat(fs, rec.path) = [data |-> rec.arg.data, err |-> OK]
    /\ Reloaded(rec.res).err = OK
    /\ Cat(Reloaded(rec.res).n, rec.path) = [data |-> rec.arg.data, err |-> OK]

\* C1.  After add(path, f) succeeds with f an opaque file of bytes B,
\* get(path) on the resulting root, and on the tree reloaded from the returned
\* root cid, is a file whose content reads back as exactly B.
C1_AddThenGet ==
    (oplog # <<>> /\ Last(oplog).op = "add" /\ Last(oplog).err = OK
        /\ ~Last(oplog).arg.ld)
    => C1_Rec(Last(oplog))

----------------------------------------------------------------------------
\* C2.  add(path, f) and then rm(path), at depth >= 2

\* the last two operations were a successful add(path, f) and rm(path)
AddThenRm ==
    /\ Len(oplog) >= 2
    /\ oplog[Len(oplog) - 1].op = "add" /\ oplog[Len(oplog) - 1].err = OK
    /\ Last(oplog).op = "rm" /\ Last(oplog).err = OK
    /\ Last(oplog).path = oplog[Len(oplog) - 1].path
    /\ Len(Last(oplog).path) >= 2

Parent(path) == SubSeq(path, 1, Len(path) - 1)

C2_Rec(added, path, parentNames) ==
    /\ TreeGet(Now, fs, path).err = ErrNotFound
    /\ Ls(fs, Parent(path)) = [names |-> parentNames, err |-> OK]
    /\ Last(Parent(path)) \in Ls(fs, Parent(Parent(path))).names

\* C2 as stated: after add(path, f) followed by rm(path) on a path of depth
\* >= 2, get(path) fails with NotFound, the parent directory still exists and
\* lists zero entries, and the grandparent still lists the parent.
C2_ParentEmpty ==
    AddThenRm => C2_Rec(oplog[Len(oplog) - 1], Last(oplog).path, {})

\* C2 amended: after add(path, f) followed by rm(path) on a path of depth >= 2,
\* get(path) fails with NotFound, the parent directory still exists and lists
\* the entries it had before the add other than the path's last name (none
\* when the add created the parent), and the grandparent still lists the parent.
C2_ParentKeepsOthers ==
    AddThenRm =>
        C2_Rec(oplog[Len(oplog) - 1], Last(oplog).path,
               LsBefore(oplog[Len(oplog) - 1], Parent(Last(oplog).path))
                   \ {Last(Last(oplog).path)})

\* add then rm under a parent that had another entry
C2_Witness ==
    /\ AddThenRm
    /\ Ls(fs, Parent(Last(oplog).path)).names # {}

----------------------------------------------------------------------------
\* userland and skeleton of a tree name the same children
Consistent(t) ==
    /\ DOMAIN t.userland = DOMAIN t.skeleton
    /\ \A n \in DOMAIN t.userland :
          /\ t.skeleton[n].cid = t.userland[n].cid
          /\ t.skeleton[n].isFile = t.userland[n].isFile

ConsistentIfTree(l) == l.err = OK => Consistent(l.n)

\* C3.  After any sequence of add, mkdir, rm, copy and merge operations, for
\* every persisted tree the names of its userland link set are the keys of its
\* skeleton, and for each name the skeleton entry has the target cid and the
\* is_file flag of the userland link.
C3_LinksMatchSkeleton ==
    \A s \in StoreIds : \A c \in stores[s] : ConsistentIfTree(LoadTree(Now, s, "", c))

\* a merge commit of two trees has been persisted, with a file and a directory
C3_Witness ==
    /\ oplog # <<>>
    /\ Last(oplog).op = "merge" /\ Last(oplog).err = OK
    /\ Last(oplog).type = MTMergeCommit
    /\ Reloaded(Last(oplog).res).err = OK
    /\ \E n, m \in DOMAIN Reloaded(Last(oplog).res).n.userland :
          /\ Reloaded(Last(oplog).res).n.userland[n].isFile
          /\ ~Reloaded(Last(oplog).res).n.userland[m].isFile

----------------------------------------------------------------------------
\* header blocks, and what they reference
IsHeader(blk) == blk.k = "map" /\ blk.hasInfo

ChildCids(w, s, blk) ==
    IF blk.info.type = NTDir /\ Has(w, s, blk.userland)
          /\ Block(w, blk.userland).k = "links"
    THEN BlockLinks(Block(w, blk.userland))
    ELSE {}

HeaderComplete(w, s, blk) ==
    /\ BlockLinks(blk) \subseteq w.stores[s]
    /\ ChildCids(w, s, blk) \subseteq w.stores[s]

\* C4.  Whatever prefix of its writes an add, copy, rm or mkdir got through,
\* every header block in the store references only blocks that are in the
\* store: its userland, skeleton and metadata blocks, its previous and merge
\* revisions and, for a directory, the header of every child named in its link
\* set; and every root cid returned to a caller is fully reachable.
C4_BottomUp ==
    /\ \A c \in stores[1] : IsHeader(Block(Now, c)) => HeaderComplete(Now, 1, Block(Now, c))
    /\ \A c \in roots : Reach(Now, 1, {c}, {}) \subseteq stores[1]

\* an operation failed on a store write after it had persisted the header of
\* a node that no root reaches
C4_Witness ==
    /\ oplog # <<>>
    /\ Last(oplog).err = ErrIO
    /\ \E c \in stores[1] :
          /\ IsHeader(Block(Now, c))
          /\ c \notin Reach(Now, 1, roots, {})

----------------------------------------------------------------------------
\* the store as a step leaves it
WorldNext ==
    [blocks |-> blocks', stores |-> stores', budget |-> NoFail, now |-> clock']

RECURSIVE Resolve(_, _)

ResolveNode(nd, w) ==
    IF nd.kind = "tree"
    THEN [kind |-> "dir",
          ents |-> [n \in DOMAIN nd.n.userland |-> Resolve(w, nd.n.userland[n].cid)]]
    ELSE IF nd.kind = "file" THEN [kind |-> "file", data |-> FileRead(w, nd.n)]
    ELSE IF nd.kind = "ldfile" THEN [kind |-> "ldfile", value |-> nd.n.content]
    ELSE [kind |-> "error", err |-> nd.err]

\* what a cid resolves to: the listing of a directory, node by node, and the
\* content of a file
Resolve(w, c) == ResolveNode(LoadNode(w, 1, "", c), w)

NothingDestroyed ==
    /\ \A s \in StoreIds : stores[s] \subseteq stores'[s]
    /\ Len(blocks) <= Len(blocks')
    /\ \A c \in 1..Len(blocks) : blocks'[c] = blocks[c]
    /\ \A c \in roots : Resolve(WorldNext, c) = Resolve(Now, c)

\* C5.  No step (add, copy, rm, mkdir, each with its puts, and merge) removes
\* or changes a block of a store, and every root cid handed out keeps
\* resolving to the directory listings and file contents it resolved to before
\* the step.
C5_NothingDestroyed == [][NothingDestroyed]_vars

\* a path was removed, and the root from before the rm still resolves it
C5_Witness ==
    /\ oplog # <<>>
    /\ Last(oplog).op = "rm" /\ Last(oplog).err = OK
    /\ TreeGet(Now, fs, Last(oplog).path).err = ErrNotFound
    /\ Last(oplog).pre \in roots
    /\ Reloaded(Last(oplog).pre).err = OK
    /\ Cat(Reloaded(Last(oplog).pre).n, Last(oplog).path).err = OK

----------------------------------------------------------------------------
\* Histories

\* every entry's previous is the cid of the next entry, the last has none
Chained(log) ==
    /\ \A i \in 1..(Len(log) - 1) : log[i].previous = log[i + 1].cid
    /\ log[Len(log)].previous = Nil

NoCidTwice(log) ==
    \A i, j \in 1..Len(log) : i < j => log[i].cid # log[j].cid

HistoryOfLength(h, n) == h.err = OK /\ Len(h.log) = n /\ Chained(h.log)

GoodHistory(h) == h.err = OK /\ NoCidTwice(h.log) /\ Chained(h.log)

\* C6.  From the persisted empty root, after n mutations (add, rm, mkdir or
\* copy calls, each of which succeeded), history(max = -1) of the root has
\* exactly n+1 entries, newest first, each entry's previous being the cid of
\* the next entry and the last entry's previous None.
C6_HistoryLength ==
    (\A i \in 1..Len(oplog) : oplog[i].op \in Mutations /\ oplog[i].err = OK)
    => HistoryOfLength(History(Now, 1, TreeAsHistoryEntry(fs), 0 - 1), Len(oplog) + 1)

\* C7.  For the Tree and the File held in memory, freshly loaded or after any
\* number of Puts, history(-1) returns a list in which no cid occurs twice,
\* every entry's previous is the cid of the next entry, and the last entry
\* has previous None.
C7_HistoryWellFormed ==
    /\ tnode.cid # Nil => GoodHistory(History(Now, 1, TreeAsHistoryEntry(tnode), 0 - 1))
    /\ fnode.cid # Nil => GoodHistory(History(Now, 1, FileAsHistoryEntry(fnode), 0 - 1))

----------------------------------------------------------------------------
\* a node with cid c and in-memory previous, put when its cid was pre
RotatedTo(c, previous, pre) ==
    /\ previous = pre
    /\ c # pre
    /\ Has(Now, 1, c)
    /\ Block(Now, c).k = "map"
    /\ Block(Now, c).previous = pre

Rotated(rec) ==
    IF rec.node = "tree" THEN RotatedTo(tnode.cid, tnode.h.previous, rec.pre)
    ELSE IF rec.node = "file" THEN RotatedTo(fnode.cid, FilePrevious(fnode), rec.pre)
    ELSE ldnode.bare \/ RotatedTo(ldnode.cid, LDPrevious(ldnode), rec.pre)

\* C8.  When Put is called on a Tree, a File or a wrapped LDFile whose cid c is
\* defined, then after Put the node's in-memory previous equals c, the node's
\* cid is that of the header just stored and differs from c, and the stored
\* header's previous equals c.
C8_PutRotatesPrevious ==
    (nlog # <<>> /\ Last(nlog).op = "put" /\ Last(nlog).err = OK
        /\ Last(nlog).pre # Nil)
    => Rotated(Last(nlog))

----------------------------------------------------------------------------
\* C9.  A tree is put, loaded again from the cid it got, and put again with
\* no mutation in between

PutLoadPut ==
    /\ Len(nlog) >= 3
    /\ \A i \in (Len(nlog) - 2)..Len(nlog) : nlog[i].node = "tree" /\ nlog[i].err = OK
    /\ nlog[Len(nlog) - 2].op = "put"
    /\ nlog[Len(nlog) - 1].op = "load"
    /\ nlog[Len(nlog)].op = "put"

\* C9 as stated: the second put yields the same cid as the first put.
C9_SameCid == PutLoadPut => nlog[Len(nlog)].cid = nlog[Len(nlog) - 2].cid

\* C9 amended: the second put yields a new cid, that of a header equal to the
\* first put's header (same info, userland, skeleton and metadata) except that
\* its previous is the cid of the first put.
C9_NewRevisionOfSameContent ==
    PutLoadPut =>
        /\ nlog[Len(nlog)].cid # nlog[Len(nlog) - 2].cid
        /\ Has(Now, 1, nlog[Len(nlog)].cid)
        /\ Block(Now, nlog[Len(nlog)].cid) =
               [Block(Now, nlog[Len(nlog) - 2].cid)
                   EXCEPT !.previous = nlog[Len(nlog) - 2].cid]

\* put, load, put of a tree that has an entry
C9_Witness == PutLoadPut /\ tnode.userland # EmptyMap

----------------------------------------------------------------------------
\* C10.  Fast-forward recognition

\* the roots produced from the roots in S by one successful mutation
Successors(S) ==
    {oplog[i].res : i \in {j \in 1..Len(oplog) :
                              /\ oplog[j].op \in Mutations
                              /\ oplog[j].err = OK
                              /\ oplog[j].pre \in S}}

\* the roots produced from the roots in todo by one or more mutations
RECURSIVE ProducedFrom(_, _)
ProducedFrom(todo, seen) ==
    IF Successors(todo) \subseteq seen THEN seen
    ELSE ProducedFrom(Successors(todo) \ seen, seen \cup Successors(todo))

\* C10.  If root b was produced from root a by a sequence of one or more
\* mutations, merge(a, b) returns type FastForward with cid = b.
C10_FastForward ==
    \A i \in 1..Len(oplog) :
        (oplog[i].op = "merge" /\ oplog[i].b \in ProducedFrom({oplog[i].a}, {}))
        => /\ oplog[i].err = OK
           /\ oplog[i].type = MTFastForward
           /\ oplog[i].res = oplog[i].b

\* merge(a, b) was called with b two mutations after a
C10_Witness ==
    /\ oplog # <<>>
    /\ Last(oplog).op = "merge"
    /\ Last(oplog).b \in ProducedFrom({Last(oplog).a}, {})
    /\ Last(oplog).b \notin Successors({Last(oplog).a})

----------------------------------------------------------------------------
\* Merge results

Merges == {i \in 1..Len(oplog) : oplog[i].op = "merge"}

NoBlocks == [s \in StoreIds |-> {}]

\* the call wrote nothing and left both of its nodes as they were
NoEffect(rec) ==
    /\ rec.wrote = NoBlocks
    /\ rec.hashed = 0
    /\ rec.after = rec.before

\* C11.  merge(a, b) with a.cid = b.cid returns type InSync with cid = a.cid,
\* writes no block to any store and leaves both in-memory nodes unchanged.
C11_InSync ==
    \A i \in Merges :
        oplog[i].a = oplog[i].b
        => /\ oplog[i].err = OK
           /\ oplog[i].type = MTInSync
           /\ oplog[i].res = oplog[i].a
           /\ NoEffect(oplog[i])

\* a root with entries and a history was merged with itself
C11_Witness ==
    /\ oplog # <<>>
    /\ Last(oplog).op = "merge"
    /\ Last(oplog).a = Last(oplog).b
    /\ Last(oplog).before[1].userland # EmptyMap
    /\ Last(oplog).before[1].h.previous # Nil

\* C12.  If root a was produced from root b by a sequence of one or more
\* mutations, merge(a, b) returns type LocalAhead with cid = a.cid and writes
\* no new revision.
C12_LocalAhead ==
    \A i \in Merges :
        oplog[i].a \in ProducedFrom({oplog[i].b}, {})
        => /\ oplog[i].err = OK
           /\ oplog[i].type = MTLocalAhead
           /\ oplog[i].res = oplog[i].a
           /\ oplog[i].wrote = NoBlocks
           /\ oplog[i].hashed = 0

\* merge(a, b) was called with a two mutations after b
C12_Witness ==
    /\ oplog # <<>>
    /\ Last(oplog).op = "merge"
    /\ Last(oplog).a \in ProducedFrom({Last(oplog).b}, {})
    /\ Last(oplog).a \notin Successors({Last(oplog).b})

----------------------------------------------------------------------------
\* Classification of a pair of heads

CidsOf(log) == {log[i].cid : i \in 1..Len(log)}

\* the cids on the previous chain of root c, c itself included
ChainOf(l) ==
    IF l.err = OK THEN CidsOf(History(Now, l.n.store, TreeAsHistoryEntry(l.n), 0 - 1).log)
    ELSE {}

Chain(c) == ChainOf(Reloaded(c))

\* the type the two chains call for
Classified(a, b) ==
    IF a = b THEN MTInSync
    ELSE IF a \in Chain(b) THEN MTFastForward
    ELSE IF b \in Chain(a) THEN MTLocalAhead
    ELSE MTMergeCommit

\* C13.  merge(a, b) returns type MergeCommit if and only if the heads differ
\* and neither head's cid occurs in the other's previous chain; every pair of
\* heads gets exactly one of the four result types InSync, FastForward,
\* LocalAhead, MergeCommit: InSync for equal heads, FastForward when a is on
\* b's chain, LocalAhead when b is on a's chain.
C13_Classification ==
    \A i \in Merges :
        /\ oplog[i].err = OK
        /\ oplog[i].type = Classified(oplog[i].a, oplog[i].b)

----------------------------------------------------------------------------
\* Commutativity

\* merge(b, a) on fresh copies of the heads of a recorded merge(a, b)
Swapped(rec) ==
    Merge(Now, 1, AsNode("tree", Reloaded(rec.b)), AsNode("tree", Reloaded(rec.a))).mr

\* FastForward seen from the other side is LocalAhead
Mirror(type) ==
    IF type = MTFastForward THEN MTLocalAhead
    ELSE IF type = MTLocalAhead THEN MTFastForward
    ELSE type

\* C14 as stated: for any two tree heads a and b, with a fixed clock and each
\* call run on fresh copies of a and b, merge(a, b) and merge(b, a) return the
\* same result type and the same cid.
C14_SameTypeAndCid ==
    \A i \in Merges :
        /\ Swapped(oplog[i]).type = oplog[i].type
        /\ Swapped(oplog[i]).cid = oplog[i].res

\* C14 amended: merge(a, b) and merge(b, a) return the same cid (or fail
\* alike), and the same type except that FastForward in one order is
\* LocalAhead in the other.
C14_SameCidMirroredType ==
    \A i \in Merges :
        /\ Swapped(oplog[i]).err = oplog[i].err
        /\ Swapped(oplog[i]).type = Mirror(oplog[i].type)
        /\ Swapped(oplog[i]).cid = oplog[i].res

\* two divergent heads were merged and the second argument was preferred
C14_Witness ==
    /\ oplog # <<>>
    /\ Last(oplog).op = "merge" /\ Last(oplog).err = OK
    /\ Last(oplog).type = MTMergeCommit
    /\ Last(oplog).after[2] # Last(oplog).before[2]
    /\ Last(oplog).res = Last(oplog).after[2].cid

----------------------------------------------------------------------------
\* Idempotence

\* merge(a, m) on fresh copies, m the result of a recorded merge(a, b)
Again(rec) ==
    Merge(Now, 1, AsNode("tree", Reloaded(rec.a)), AsNode("tree", Reloaded(rec.res))).mr

\* C15.  Merge idempotence: for any divergent heads a and b, with
\* m = merge(a, b), the call merge(a, m) classifies as FastForward and returns
\* m.cid, whichever of a and b won the tie-break.
C15_Idempotent ==
    \A i \in Merges :
        (oplog[i].err = OK /\ oplog[i].type = MTMergeCommit)
        => /\ Again(oplog[i]).err = OK
           /\ Again(oplog[i]).type = MTFastForward
           /\ Again(oplog[i]).cid = oplog[i].res

----------------------------------------------------------------------------
\* The winner of a merge commit

\* the history of root c, newest first
HistoryOf(l) ==
    IF l.err = OK THEN History(Now, l.n.store, TreeAsHistoryEntry(l.n), 0 - 1).log
    ELSE <<>>

\* the positions of log whose cid is in S
Common(log, S) == {i \in 1..Len(log) : log[i].cid \in S}

\* the generation count of a head with history log against the chain S of the
\* other head: the distance to the nearest revision that is on S, or to the
\* end of the log when none is
GenCount(log, S) ==
    IF Common(log, S) = {} THEN Len(log) - 1
    ELSE (CHOOSE i \in Common(log, S) : \A j \in Common(log, S) : i <= j) - 1

Gen(c, d) == GenCount(HistoryOf(Reloaded(c)), Chain(d))

Winner(a, b) ==
    IF Gen(a, b) < Gen(b, a) \/ (Gen(a, b) = Gen(b, a) /\ b < a) THEN b ELSE a

Loser(a, b) == IF Winner(a, b) = a THEN b ELSE a

MergeCommits ==
    {i \in Merges : oplog[i].err = OK /\ oplog[i].type = MTMergeCommit}

\* C16.  In every MergeCommit of two trees, the winner is the head with the
\* larger generation count (distance from its head to the common ancestor, or
\* to the end of its chain when there is none), or on equal counts the head
\* with the smaller cid; the merge commit's header has previous = winner's
\* head cid and merge = loser's head cid.
C16_WinnerAndLinks ==
    \A i \in MergeCommits :
        /\ Has(Now, 1, oplog[i].res)
        /\ IsHeader(Block(Now, oplog[i].res))
        /\ Block(Now, oplog[i].res).previous = Winner(oplog[i].a, oplog[i].b)
        /\ Block(Now, oplog[i].res).merge = Loser(oplog[i].a, oplog[i].b)

\* a merge commit whose winner has the larger generation count and the
\* larger cid
C16_Witness ==
    /\ oplog # <<>>
    /\ Len(oplog) \in MergeCommits
    /\ Gen(Last(oplog).a, Last(oplog).b) # Gen(Last(oplog).b, Last(oplog).a)
    /\ Winner(Last(oplog).a, Last(oplog).b) > Loser(Last(oplog).a, Last(oplog).b)

----------------------------------------------------------------------------
\* The listing of a merge commit

\* merge of the two children named n, the preferred tree's child first
ChildMerge(W, L, n) ==
    Merge(Now, 1, LoadNodeFromSkeletonInfo(Now, 1, n, W.skeleton[n]),
                  LoadNodeFromSkeletonInfo(Now, 1, n, L.skeleton[n])).mr

\* the names both trees have, with different cids
Conflicts(W, L) ==
    {n \in DOMAIN W.userland \cap DOMAIN L.userland :
        W.userland[n].cid # L.userland[n].cid}

ExpectedCid(W, L, n) ==
    IF n \notin DOMAIN L.userland THEN W.userland[n].cid
    ELSE IF n \notin DOMAIN W.userland THEN L.userland[n].cid
    ELSE IF n \notin Conflicts(W, L) THEN W.userland[n].cid
    ELSE ChildMerge(W, L, n).cid

UnionOfBoth(W, L, M) ==
    /\ TreeNames(M) = TreeNames(W) \cup TreeNames(L)
    /\ \A n \in DOMAIN M.userland : M.userland[n].cid = ExpectedCid(W, L, n)

\* the merge commit m of the trees a and b, and every merge commit of two
\* directories made under it, lists the union
RECURSIVE ListsUnion(_, _, _)

ListsUnionLoaded(W, L, M) ==
    /\ W.err = OK /\ L.err = OK /\ M.err = OK
    /\ UnionOfBoth(W.n, L.n, M.n)
    /\ \A n \in Conflicts(W.n, L.n) :
          (/\ ~W.n.userland[n].isFile
           /\ ~L.n.userland[n].isFile
           /\ ChildMerge(W.n, L.n, n).type = MTMergeCommit)
          => ListsUnion(W.n.userland[n].cid, L.n.userland[n].cid, M.n.userland[n].cid)

ListsUnion(a, b, m) ==
    ListsUnionLoaded(Reloaded(Winner(a, b)), Reloaded(Loser(a, b)), Reloaded(m))

\* C17.  After a MergeCommit of two directory trees, the merged directory
\* lists exactly the union of the names of both sides: a name present on only
\* one side keeps that side's cid, a name with equal cid on both sides keeps
\* that cid, and a name with unequal cids gets the cid returned by recursively
\* merging the two children.
C17_MergedListing ==
    \A i \in MergeCommits : ListsUnion(oplog[i].a, oplog[i].b, oplog[i].res)

\* a merge commit of two roots that both have a directory of the same name,
\* each with an entry the other lacks, so that the directories were merged too
C17_Witness ==
    /\ oplog # <<>>
    /\ Len(oplog) \in MergeCommits
    /\ \E n \in Conflicts(Reloaded(Last(oplog).a).n, Reloaded(Last(oplog).b).n) :
          /\ ChildMerge(Reloaded(Winner(Last(oplog).a, Last(oplog).b)).n,
                        Reloaded(Loser(Last(oplog).a, Last(oplog).b)).n, n).type
                 = MTMergeCommit
          /\ Ls(Reloaded(Last(oplog).a).n, <<n>>).err = OK
          /\ Ls(Reloaded(Last(oplog).b).n, <<n>>).err = OK
          /\ Ls(Reloaded(Last(oplog).a).n, <<n>>).names
                 # Ls(Reloaded(Last(oplog).b).n, <<n>>).names

----------------------------------------------------------------------------
\* Merging across stores

\* the links a reader of the content follows: userland and skeleton of a
\* header, and the children of a link set
ContentLinks(blk) ==
    IF blk.k = "map" THEN {blk.userland, blk.skeleton} \ {Nil}
    ELSE IF blk.k = "links" THEN {blk.links[n].cid : n \in DOMAIN blk.links}
    ELSE {}

\* the cids under todo, through the content links of the blocks themselves
RECURSIVE Under(_, _)
Under(todo, seen) ==
    IF todo = {} THEN seen
    ELSE Under(UNION {ContentLinks(Block(Now, c)) : c \in todo} \ (seen \cup todo),
               seen \cup todo)

\* C18.  When a and b live on distinct stores and merge(a, b) returns (with
\* any type: FastForward, LocalAhead or MergeCommit), the returned cid and
\* every block reachable from it through userland, skeleton and child links
\* are present in destFS, which is a's store.
C18_ResultOnDest ==
    \A i \in Merges :
        (oplog[i].err = OK /\ oplog[i].before[1].store # oplog[i].before[2].store)
        => Under({oplog[i].res}, {}) \subseteq stores[oplog[i].before[1].store]

----------------------------------------------------------------------------
\* Removing a name that is not there

\* rec is an rm whose parent directory existed in the root it started from
\* and did not list the path's last name
RmMissing(rec) ==
    /\ rec.op = "rm"
    /\ Reloaded(rec.pre).err = OK
    /\ Ls(Reloaded(rec.pre).n, Parent(rec.path)).err = OK
    /\ Last(rec.path) \notin Ls(Reloaded(rec.pre).n, Parent(rec.path)).names

\* the handle is at root c and lists what c lists
Unchanged(c) ==
    /\ fs.cid = c
    /\ \A p \in Paths \cup {<<>>} : Ls(fs, p) = Ls(Reloaded(c).n, p)

\* C19.  rm(path) whose final component is not a name in its parent directory
\* returns NotFound and produces no new revision: the root cid and every
\* directory listing are unchanged.
C19_RmMissingNotFound ==
    (oplog # <<>> /\ RmMissing(Last(oplog)))
    => /\ Last(oplog).err = ErrNotFound
       /\ Unchanged(Last(oplog).pre)

----------------------------------------------------------------------------
\* mkdir of a nested path

\* rec is a mkdir of a path of two or more names whose first name the root it
\* started from did not list
MkdirNew(rec) ==
    /\ rec.op = "mkdir"
    /\ Len(rec.path) >= 2
    /\ rec.path[1] \notin LsBefore(rec, <<>>)

\* the directory at the first i names of path lists the next name and nothing
\* else, the last one nothing
ListsNext(path, i) ==
    Ls(fs, SubSeq(path, 1, i)) =
        [names |-> IF i < Len(path) THEN {path[i + 1]} ELSE {}, err |-> OK]

\* C20.  mkdir(p1/p2/.../pn) with n >= 2 on a tree in which p1 is absent:
\* afterwards get(p1/.../pi) returns a directory for every i, directory pi
\* lists exactly p(i+1), pn is empty, and the tree's own listing gains exactly
\* the one name p1 and no other name.
C20_MkdirNested ==
    (oplog # <<>> /\ MkdirNew(Last(oplog)))
    => /\ Last(oplog).err = OK
       /\ \A i \in 1..Len(Last(oplog).path) : ListsNext(Last(oplog).path, i)
       /\ Ls(fs, <<>>).names = LsBefore(Last(oplog), <<>>) \cup {Last(oplog).path[1]}

----------------------------------------------------------------------------
\* Listings

\* the place of a name in the ascending order of names
Pos(name) == CHOOSE k \in 1..Len(NameSeq) : NameSeq[k] = name

Ascending(entries) ==
    \A i, j \in 1..Len(entries) : i < j => Pos(entries[i].name) < Pos(entries[j].name)

\* entries names every link of t, once, in ascending order, with its kind
ListsLinks(entries, t) ==
    /\ {entries[i].name : i \in 1..Len(entries)} = DOMAIN t.userland
    /\ Len(entries) = Cardinality(DOMAIN t.userland)
    /\ Ascending(entries)
    /\ \A i \in 1..Len(entries) : entries[i].isFile = t.userland[entries[i].name].isFile

ListedIfTree(nd) ==
    (nd.err = OK /\ nd.kind = "tree") => ListsLinks(TreeReadDir(nd.n, 0 - 1), nd.n)

\* C21.  After any sequence of add, mkdir, rm and copy, listing a directory
\* (ls, ReadDir(-1)) returns every name of its link set exactly once, in
\* ascending name order.
C21_ListingSorted ==
    \A p \in Paths \cup {<<>>} : ListedIfTree(TreeGet(Now, fs, p))

\* the second of two names was added first, the first was copied in after
\* it, and the root lists both
C21_Witness ==
    /\ Len(oplog) = 2
    /\ oplog[1].op = "add" /\ oplog[1].err = OK /\ oplog[1].path = <<"b">>
    /\ oplog[2].op = "copy" /\ oplog[2].err = OK /\ oplog[2].path = <<"a">>
    /\ Len(TreeReadDir(fs, 0 - 1)) = 2

----------------------------------------------------------------------------
\* history(max)

\* the number of revisions on the previous chain of the stored header c, c
\* itself included
RECURSIVE ChainLength(_)
ChainLength(c) == IF c = Nil THEN 0 ELSE 1 + ChainLength(Block(Now, c).previous)

\* history(max) of the handle's root
RootHistory(max) == History(Now, fs.store, TreeAsHistoryEntry(fs), max)

\* C22.  history(max) on a node whose previous chain has L revisions
\* (including the node itself) returns exactly min(max, L) entries for every
\* max >= 1, and all L entries when max < 0.
C22_HistoryMax ==
    /\ RootHistory(0 - 1).err = OK
    /\ Len(RootHistory(0 - 1).log) = ChainLength(fs.cid)
    /\ \A max \in 1..(ChainLength(fs.cid) + 1) :
          /\ RootHistory(max).err = OK
          /\ Len(RootHistory(max).log) = Min(max, ChainLength(fs.cid))

----------------------------------------------------------------------------
\* Mutations of a merge commit

\* the step is an add, mkdir, rm or copy
MutationStep == oplog' # oplog /\ Last(oplog').op \in Mutations

\* the cids of the blocks the step hashed
NewBlocks == (Len(blocks) + 1)..Len(blocks')

\* C23.  When add, copy, rm or mkdir is applied to a tree whose head (or any
\* node on the mutated path, including an existing file being overwritten) is
\* a merge commit, every new revision written by that operation has
\* merge = None; so a stored header has merge set only if the merge engine
\* wrote it.
C23_MutationsClearMerge ==
    [][MutationStep =>
          \A c \in NewBlocks : IsHeader(blocks'[c]) => blocks'[c].merge = Nil]_vars

----------------------------------------------------------------------------
\* Linked-data files through add and get

\* what get(path) finds in the root the operation started from
Before(rec) == TreeGet(Now, Reloaded(rec.pre).n, rec.path)

\* the last operation was a successful add of a linked-data file
AddedLD == oplog # <<>> /\ Last(oplog).op = "add" /\ Last(oplog).err = OK
               /\ Last(oplog).arg.ld

\* get(path) is a linked-data file with content v
GetsLD(nd, v) == nd.err = OK /\ nd.kind = "ldfile" /\ nd.n.content = v

\* C24.  LDFile round-trip: for every structured map value v, after
\* add(path, LDFile(v)) and reloading the tree from the returned root cid,
\* get(path) returns an LDFile whose content equals v; this also holds when
\* path previously held an LDFile or an opaque file.
C24_LDRoundTrip ==
    (AddedLD /\ (Before(Last(oplog)).err = ErrNotFound
                    \/ Before(Last(oplog)).kind \in {"file", "ldfile"}))
    => /\ Reloaded(Last(oplog).res).err = OK
       /\ GetsLD(TreeGet(Now, Reloaded(Last(oplog).res).n, Last(oplog).path),
                 Last(oplog).arg.value)

\* the same, for a path that held no opaque file
LDRoundTripNoOpaque ==
    (AddedLD /\ (Before(Last(oplog)).err = ErrNotFound
                    \/ Before(Last(oplog)).kind \in {"ldfile"}))
    => /\ Reloaded(Last(oplog).res).err = OK
       /\ GetsLD(TreeGet(Now, Reloaded(Last(oplog).res).n, Last(oplog).path),
                 Last(oplog).arg.value)

----------------------------------------------------------------------------
\* Sizes

\* the byte length the store's file writer reports: every content of Contents
\* is one byte long
ByteLen(data) == IF data = "" THEN 0 ELSE 1

\* the persisted headers of type ty whose userland block is of kind k
HeadersOf(ty, k) ==
    {c \in stores[1] :
        /\ IsHeader(blocks[c]) /\ blocks[c].info.type = ty
        /\ blocks[c].userland \in stores[1]
        /\ blocks[blocks[c].userland].k = k}

\* the sizes of the headers behind the links of a directory, summed
RECURSIVE SumSizes(_, _)
SumSizes(links, i) ==
    IF i > Len(NameSeq) THEN 0
    ELSE (IF NameSeq[i] \in DOMAIN links
          THEN blocks[links[NameSeq[i]].cid].info.size ELSE 0)
             + SumSizes(links, i + 1)

\* C25.  After any sequence of mutations, every persisted file header has
\* info.size equal to the byte length of its content as reported by the
\* store's file writer, and every persisted directory header has info.size
\* equal to the sum of the sizes of its children.
C25_Sizes ==
    /\ \A c \in HeadersOf(NTFile, "raw") :
           blocks[c].info.size = ByteLen(blocks[blocks[c].userland].data)
    /\ \A c \in HeadersOf(NTDir, "links") :
           blocks[c].info.size
               = SumSizes(blocks[blocks[c].userland].links, 1)

----------------------------------------------------------------------------
\* Timestamps

\* a header written at time now: modified at now, and created when its
\* previous revision was
Stamped(blk, now) ==
    /\ blk.info.mtime = now
    /\ blk.previous # Nil => blk.info.ctime = blocks'[blk.previous].info.ctime

\* C26.  For an add, copy, rm or mkdir performed at clock time T, every node
\* revision written by the operation (each directory on the path and the file
\* created or overwritten) has info.mtime = T, and has the same info.ctime as
\* that node's previous revision whenever it has one.
C26_Timestamps ==
    [][(MutationStep /\ Last(oplog').err = OK) =>
          \A c \in NewBlocks : IsHeader(blocks'[c]) => Stamped(blocks'[c], clock')]_vars

----------------------------------------------------------------------------
\* A tree on one side, a file on the other

\* the names that are a directory in one tree and a file in the other
Mixed(A, B) == {n \in Conflicts(A, B) : A.userland[n].isFile # B.userland[n].isFile}

\* the merges of two diverged roots that have such a name
MixedMerges ==
    {i \in Merges :
        /\ Classified(oplog[i].a, oplog[i].b) = MTMergeCommit
        /\ Mixed(Reloaded(oplog[i].a).n, Reloaded(oplog[i].b).n) # {}}

\* the headers with a merge link that the call stored
CommitsWritten(rec) ==
    {c \in UNION {rec.wrote[s] : s \in StoreIds} :
        IsHeader(blocks[c]) /\ blocks[c].merge # Nil}

\* C27.  When a directory merge meets a name that is a tree on one side and a
\* file on the other (with unequal cids), merge fails with an error
\* (MergeImpossible), the error propagates to the caller of the root merge,
\* and no merge commit is written.
C27_MixedFails ==
    \A i \in MixedMerges :
        /\ oplog[i].err # OK
        /\ CommitsWritten(oplog[i]) = {}

----------------------------------------------------------------------------
\* Concurrent writers

\* the operations of log from the j-th on, run one after the other on t in
\* world w
RECURSIVE RunAlone(_, _, _, _)

RunNext(r, log, j) == RunAlone(r.w, r.n, log, j)

RunAlone(w, t, log, j) ==
    IF j > Len(log) THEN [w |-> w, n |-> t]
    ELSE RunNext(Do(w, t, log[j]), log, j + 1)

\* writer wr running alone on the store it loaded from
Alone(wr) ==
    RunAlone([blocks |-> blocks, stores |-> [stores EXCEPT ![1] = wr.base],
              budget |-> NoFail, now |-> clock],
             wr.t0, wr.log, 1)

\* the writer has returned from its operations
Ended(wr) == wr.loaded /\ ~wr.busy /\ wr.log # <<>>

SameAsAlone(wr, alone) ==
    /\ wr.t = alone.n
    /\ Resolve(Now, wr.t.cid) = Resolve(alone.w, wr.t.cid)
    /\ Reach(Now, 1, {wr.t.cid}, {}) \subseteq stores[1]

----------------------------------------------------------------------------
\* Decoding a linked-data block

\* the LDFile has just been loaded from the block of its cid
LDLoaded ==
    nlog # <<>> /\ Last(nlog).node = "ldfile" /\ Last(nlog).op = "load"
        /\ Last(nlog).err = OK

\* the block has an info map with a non-empty version string
Versioned(blk) == blk.hasInfo /\ blk.info.wnfs # ""

Decoded(df, blk) ==
    IF Versioned(blk) THEN ~df.bare /\ df.content = blk.content
    ELSE df.bare /\ df.content = ValueOfBlock(blk)

\* C29.  Decoding an LDFile block yields a wrapped LDFile (bare = false,
\* content = the block's content field) exactly when the block has an info map
\* with a non-empty version string; in every other case, including an info
\* map that lacks the version key, it yields bare = true with the whole block
\* as content.
C29_Decode == LDLoaded => Decoded(ldnode, blocks[ldnode.cid])

\* the same, for the blocks with a versioned info map or with none
DecodeUnlessNoVersion ==
    (LDLoaded /\ (blocks[ldnode.cid].hasInfo => Versioned(blocks[ldnode.cid])))
    => Decoded(ldnode, blocks[ldnode.cid])

----------------------------------------------------------------------------
\* Metadata of a File

\* the step is a SetMetadata on the File
SetMetadataStep ==
    nlog' # nlog /\ Last(nlog').node = "file" /\ Last(nlog').op = "setmetadata"

\* the File has just been Put, for the first time since a SetMetadata
PutAfterSetMetadata ==
    /\ nlog # <<>> /\ Last(nlog).node = "file" /\ Last(nlog).op = "put"
    /\ Last(nlog).err = OK
    /\ \E i \in 1..(Len(nlog) - 1) :
          /\ nlog[i].node = "file" /\ nlog[i].op = "setmetadata"
          /\ \A j \in (i + 1)..(Len(nlog) - 1) : nlog[j].node # "file"

\* Metadata() of the file f has content v
MetadataIs(f, v) ==
    /\ f.err = OK
    /\ FileMetadata(Now, f.n).err = OK
    /\ FileMetadata(Now, f.n).n.content = v

\* the File reloaded from its new cid gives back the metadata held in memory,
\* which is the value set
MetadataRoundTrip ==
    PutAfterSetMetadata
    => MetadataIs(LoadFile(Now, 1, fnode.name, fnode.cid), fnode.metadata.content)

\* C30.  set_metadata(v) on a File changes neither the file's cid nor any
\* block in the store until Put is called; after the next Put and a reload
\* from the new cid, Metadata() returns content equal to v, for every map
\* value v (including maps that themselves contain an info key).
C30_Metadata ==
    [][/\ SetMetadataStep =>
             (fnode'.cid = fnode.cid /\ blocks' = blocks /\ stores' = stores)
       /\ MetadataRoundTrip']_vars

\* the same round trip, for values without a versioned info map
MetadataUnlessVersioned ==
    (PutAfterSetMetadata /\ fnode.metadata.content.info # "versioned")
    => MetadataIs(LoadFile(Now, 1, fnode.name, fnode.cid), fnode.metadata.content)

\* SetMetadata alone stores nothing
SetMetadataStoresNothing ==
    [][SetMetadataStep =>
          (fnode'.cid = fnode.cid /\ blocks' = blocks /\ stores' = stores)]_vars

----------------------------------------------------------------------------
\* The shape of a header

\* the persisted headers tagged ty
Tagged(ty) == {c \in stores[1] : IsHeader(blocks[c]) /\ blocks[c].info.type = ty}

\* a link set stored as the userland of a persisted directory header
LinkSets == {blocks[c].userland : c \in HeadersOf(NTDir, "links")}

FileShaped(blk) ==
    /\ blk.skeleton = Nil
    /\ blk.userland \in stores[1]
    /\ blocks[blk.userland].k = "raw"

DirShaped(blk) ==
    /\ blk.skeleton # Nil
    /\ blk.userland \in stores[1]
    /\ blocks[blk.userland].k = "links"

\* the is_file flag of a link agrees with the tag of the header it points to
FlagAgrees(link) ==
    /\ link.cid \in stores[1]
    /\ IsHeader(blocks[link.cid])
    /\ link.isFile = (blocks[link.cid].info.type \in {NTFile, NTLDFile})

\* C31.  After any sequence of add, mkdir, rm and copy, including an add
\* whose leaf name currently names a node of a different kind, every persisted
\* header tagged File has no skeleton link and a userland link to file
\* content, every header tagged Dir has both skeleton and userland links with
\* userland decoding as a link set, and the link's is_file flag agrees with
\* the target's tag.
C31_HeaderShape ==
    /\ \A c \in Tagged(NTFile) : FileShaped(blocks[c])
    /\ \A c \in Tagged(NTDir) : DirShaped(blocks[c])
    /\ \A u \in LinkSets : \A n \in DOMAIN blocks[u].links : FlagAgrees(blocks[u].links[n])

\* the same, as long as no add or copy has put a file where a node of another
\* kind was
SameKindOnly ==
    \A i \in 1..Len(oplog) :
        (oplog[i].op \in {"add", "copy"} /\ oplog[i].err = OK)
        => (Before(oplog[i]).err = ErrNotFound
               \/ (oplog[i].op = "add"
                      /\ Before(oplog[i]).kind
                             = (IF oplog[i].arg.ld THEN "ldfile" ELSE "file")))

HeaderShapeSameKind == SameKindOnly => C31_HeaderShape

----------------------------------------------------------------------------
\* A file in the middle of a path

\* the paths whose first component is linked as a file in tree t and is
\* followed by further components
ThroughFile(t) ==
    {path \in Paths : Len(path) >= 2 /\ path[1] \in DOMAIN t.userland
                        /\ t.userland[path[1]].isFile}

GetThroughFile(w, t) == \A path \in ThroughFile(t) : TreeGet(w, t, path).err = ErrNotTree

\* the step is a mutation of the handle along such a path
StepThroughFile == MutationStep /\ Last(oplog').path \in ThroughFile(fs)

----------------------------------------------------------------------------
\* The empty path

\* C33.  mkdir, add, copy and rm called with an empty path each return an
\* invalid-path error, write nothing to the store, and leave the tree's cid,
\* userland and skeleton unchanged.
C33_EmptyPath ==
    [][(MutationStep /\ Last(oplog').path = <<>>) =>
          /\ Last(oplog').err = ErrInvalidPath
          /\ stores' = stores
          /\ fs'.cid = fs.cid
          /\ fs'.userland = fs.userland
          /\ fs'.skeleton = fs.skeleton]_vars

\* two of the four have been called with the empty path, one after the
\* other, on a tree that has entries
C33_Witness ==
    /\ fs.userland # EmptyMap
    /\ Len(oplog) = 3
    /\ oplog[2].path = <<>> /\ oplog[2].err = ErrInvalidPath
    /\ oplog[3].path = <<>> /\ oplog[3].err = ErrInvalidPath
    /\ oplog[2].op # oplog[3].op

----------------------------------------------------------------------------
\* get

\* some component of the path is absent from the userland of its parent, the
\* components before it being directories
RECURSIVE Absent(_, _)

AbsentBelow(ch, path) == ch.err = OK /\ Absent(ch.n, Tail(path))

Absent(t, path) ==
    /\ path # <<>>
    /\ \/ path[1] \notin DOMAIN t.userland
       \/ /\ path[1] \in DOMAIN t.userland
          /\ AbsentBelow(LoadTree(Now, t.store, path[1], t.userland[path[1]].cid), path)

\* C34.  get(path) returns the tree itself for the empty path and NotFound
\* when any component is absent from its parent's userland; in every case get
\* writes no block to the store and leaves the tree's cid, header, userland
\* and skeleton unchanged.  (Tree.Get only reads: it has no effect to state.)
C34_Get ==
    /\ TreeGet(Now, fs, <<>>) = Node("tree", fs, OK)
    /\ \A path \in Paths : Absent(fs, path) => TreeGet(Now, fs, path).err = ErrNotFound

\* the tree has a directory in which the last component of a path is absent
C34_Witness ==
    \E path \in PathsOfLen(2) :
        /\ path[1] \in DOMAIN fs.userland
        /\ Absent(fs, path)
        /\ TreeGet(Now, fs, path).err = ErrNotFound

----------------------------------------------------------------------------
\* The store of the remote side

\* the merges of two nodes held on different stores
CrossMerges ==
    {i \in Merges : oplog[i].before[1].store # oplog[i].before[2].store}

\* C35.  merge(a, b) with a and b on distinct stores writes blocks only to
\* a's store: for every result type and every mix of node kinds, b's store
\* holds exactly the same blocks after the call as before.
C35_RemoteUntouched ==
    \A i \in CrossMerges : oplog[i].wrote[oplog[i].before[2].store] = {}

\* the same, for the merges that meet no name that is a directory on one side
\* and a file on the other
RemoteUntouchedSameKinds ==
    \A i \in CrossMerges :
        Mixed(oplog[i].before[1], oplog[i].before[2]) = {} =>
            oplog[i].wrote[oplog[i].before[2].store] = {}

----------------------------------------------------------------------------
\* mkdir where something already is

MkdirStep == Len(oplog') = Len(oplog) + 1 /\ Last(oplog').op = "mkdir"

\* the names and child cids of a directory that get returned
Listing(nd) == [n \in DOMAIN nd.n.userland |-> nd.n.userland[n].cid]

IsDir(nd) == nd.err = OK /\ nd.kind = "tree"

IsFile(nd) == nd.err = OK /\ nd.kind \in {"file", "ldfile"}

\* mkdir of a path at which get(path) returned the directory `was`, and
\* returns `is` afterwards
MkdirOnDir(was, is) ==
    IsDir(was) =>
        /\ Last(oplog').err = OK
        /\ IsDir(is)
        /\ Listing(is) = Listing(was)

\* mkdir of a path at which get(path) returned the node `was`
MkdirOnFile(was) ==
    IsFile(was) =>
        /\ Last(oplog').err # OK
        /\ stores' = stores
        /\ fs'.cid = fs.cid
        /\ fs'.userland = fs.userland
        /\ fs'.skeleton = fs.skeleton

\* C36.  mkdir(path) on a path that already names a directory succeeds and
\* leaves that directory's listing (names and child cids) unchanged; mkdir on
\* a path that names a file returns an error and changes nothing.
C36_MkdirExisting ==
    [][MkdirStep =>
          /\ MkdirOnDir(TreeGet(Now, fs, Last(oplog').path),
                        TreeGet(WorldNext, fs', Last(oplog').path))
          /\ MkdirOnFile(TreeGet(Now, fs, Last(oplog').path))]_vars

\* the same for the paths of one name
MkdirExistingTop ==
    [][(MkdirStep /\ Len(Last(oplog').path) = 1) =>
          /\ MkdirOnDir(TreeGet(Now, fs, Last(oplog').path),
                        TreeGet(WorldNext, fs', Last(oplog').path))
          /\ MkdirOnFile(TreeGet(Now, fs, Last(oplog').path))]_vars

----------------------------------------------------------------------------
\* copy of a source directory

\* the step is a copy of a source directory to a path that is absent or a
\* directory, below directories
CopyDirStep ==
    /\ Len(oplog') = Len(oplog) + 1
    /\ Last(oplog').op = "copy"
    /\ Last(oplog').path # <<>>
    /\ Last(oplog').arg.src.isDir
    /\ \/ IsDir(TreeGet(Now, fs, Last(oplog').path))
       \/ TreeGet(Now, fs, Last(oplog').path).err = ErrNotFound

\* the names of the directory that get returned, none for anything else
NamesOf(nd) == IF IsDir(nd) THEN DOMAIN nd.n.userland ELSE {}

\* copy of source directory src to a path where get returned `was`, and
\* returns `is` afterwards
CopiedDir(src, was, is) ==
    /\ Last(oplog').err = OK
    /\ IsDir(is)
    /\ (DOMAIN src.ents) \cup NamesOf(was) \subseteq NamesOf(is)
    /\ (DOMAIN src.ents = {} /\ ~IsDir(was)) => NamesOf(is) = {}

\* C37.  copy(path, src, srcFS) where src is a directory with zero entries
\* completes without crashing and creates an empty directory at path; where
\* src has k >= 1 entries, the directory at path afterwards contains every one
\* of the k names, plus any names it held before.
C37_CopyDir ==
    [][CopyDirStep =>
          CopiedDir(Last(oplog').arg.src,
                    TreeGet(Now, fs, Last(oplog').path),
                    TreeGet(WorldNext, fs', Last(oplog').path))]_vars

\* no name of the source is a name of the directory that get returned
NewNames(src, was) == DOMAIN src.ents \cap NamesOf(was) = {}

\* the same for the source directories that have an entry and share no name
\* with the directory at path
CopyDirWithEntries ==
    [][(/\ CopyDirStep
        /\ DOMAIN Last(oplog').arg.src.ents # {}
        /\ NewNames(Last(oplog').arg.src, TreeGet(Now, fs, Last(oplog').path))) =>
          CopiedDir(Last(oplog').arg.src,
                    TreeGet(Now, fs, Last(oplog').path),
                    TreeGet(WorldNext, fs', Last(oplog').path))]_vars

----------------------------------------------------------------------------
\* The cid of a node whose Put failed

\* the Puts that returned an error
FailedPuts == {i \in 1..Len(nlog) : nlog[i].op = "put" /\ nlog[i].err # OK}

\* the cid is undefined or names a block of the node's store
CidStored(n) == n.cid = Nil \/ n.cid \in stores[1]

\* C38.  If Put fails at any of its store writes, the node's in-memory cid is
\* unchanged; so for Tree, File and LDFile the in-memory cid is at all times
\* either undefined or the cid of a block present in the store.
C38_CidStored ==
    /\ \A i \in FailedPuts : nlog[i].cid = nlog[i].pre
    /\ CidStored(tnode)
    /\ CidStored(fnode)
    /\ CidStored(ldnode)

\* the same for the tree and the bare linked-data file
CidStoredTree ==
    /\ \A i \in FailedPuts :
          (nlog[i].node = "tree" \/ (nlog[i].node = "ldfile" /\ ldnode.bare))
              => nlog[i].cid = nlog[i].pre
    /\ CidStored(tnode)
    /\ ldnode.bare => CidStored(ldnode)

----------------------------------------------------------------------------
\* ReadDir with a count

\* the first k entries of the links in name order
FirstEntries(links, k) ==
    [i \in 1..k |-> DirEntry(links, SortedSlice(links)[i])]

\* C39.  ReadDir(n) on a directory with m entries returns exactly min(n, m)
\* entries for every n >= 1 (the first ones in name order), for both the
\* public Tree and the BareTree.
C39_ReadDir ==
    \A n \in 1..MaxReadDir :
        /\ TreeReadDir(fs, n) =
              FirstEntries(fs.userland, Min(n, Cardinality(DOMAIN fs.userland)))
        /\ BareTreeReadDir(fs.userland, n) =
              FirstEntries(fs.userland, Min(n, Cardinality(DOMAIN fs.userland)))

\* what both return: the first min(n + 1, m) entries
ReadDirOneMore ==
    \A n \in 0..MaxReadDir :
        /\ TreeReadDir(fs, n) =
              FirstEntries(fs.userland, Min(n + 1, Cardinality(DOMAIN fs.userland)))
        /\ BareTreeReadDir(fs.userland, n) =
              FirstEntries(fs.userland, Min(n + 1, Cardinality(DOMAIN fs.userland)))

----------------------------------------------------------------------------
\* Put on a loaded file

\* the step is a Put on a file that was loaded and whose content was neither
\* read nor replaced since
PutUnreadStep ==
    /\ Len(nlog') = Len(nlog) + 1
    /\ Last(nlog').node = "file"
    /\ Last(nlog').op = "put"
    /\ fnode.cid # Nil
    /\ ~fnode.content.set

\* C40.  Put on a File that was loaded from the store and has had only
\* set_metadata applied (its content was never read or replaced) writes a new
\* header whose userland cid equals the userland cid of the previous
\* revision, so the file's content is preserved.
C40_PutKeepsContent ==
    [][PutUnreadStep =>
          /\ Last(nlog').err = OK
          /\ fnode'.cid \in stores'[1]
          /\ blocks'[fnode'.cid].previous = fnode.cid
          /\ blocks'[fnode'.cid].userland = blocks[fnode.cid].userland]_vars

\* what such a Put does: it fails and stores nothing, or its header links
\* content of no bytes
PutUnreadLosesContent ==
    [][PutUnreadStep =>
          \/ Last(nlog').err \in {ErrPanic, ErrIO} /\ stores' = stores
          \/ /\ Last(nlog').err = OK
             /\ blocks'[fnode'.cid].previous = fnode.cid
             /\ blocks'[blocks'[fnode'.cid].userland] = RawBlock("")]_vars

====
